---- MODULE Spec2Model ----
(***************************************************************************)
(* Model of the hippocampus memory engine: the SQLite store (entities,      *)
(* observations, embeddings, relationships, foreign keys with ON DELETE     *)
(* CASCADE) and the tools remember, update, merge and forget that run on    *)
(* it.  An async tool is two steps: the synchronous part up to              *)
(* `await generateEmbedding(...)` and the synchronous part after it.        *)
(***************************************************************************)
EXTENDS Integers, Sequences, FiniteSets, Bags, TLC

VARIABLES entities, observations, embeddings, relationships,
          nextEntity, nextObs, calls, last,
          db, backfill, authCodes, accessTokens, refreshTokens, nextToken,
          issued, windows, now, clients, passed

vars == <<entities, observations, embeddings, relationships,
          nextEntity, nextObs, calls, last,
          db, backfill, authCodes, accessTokens, refreshTokens, nextToken,
          issued, windows, now, clients, passed>>

store == <<entities, observations, embeddings, relationships>>

\* the process around the tools: the opened database file, the startup
\* backfill, the OAuth maps, the rate limiter's windows and Date.now();
\* passed is a history variable: the requests the limiter handed to next()
\* during the last WINDOW_MS
http == <<authCodes, accessTokens, refreshTokens, nextToken, issued, windows, now,
          clients, passed>>
platform == <<db, backfill, authCodes, accessTokens, refreshTokens, nextToken,
              issued, windows, now, clients, passed>>

(***************************************************************************)
(* Bounds of the exploration.                                              *)
(***************************************************************************)
\* observation ids randomUUID hands out in one behaviour, per specification
MaxObs == 3
MaxObsRemember == 4
MaxObsMerge == 3
MaxObsForget == 2
\* entity ids randomUUID hands out in one behaviour
MaxEnt == 2
\* tool calls that may be suspended on the embedder at once
MaxInFlight == 2
\* longest observation_ids list passed to merge
MaxMergeIds == 2
\* observation ids handed out in one behaviour of the entity specification
MaxObsEntity == 2
\* observation ids handed out in one behaviour of the tool-handler specification
MaxObsTools == 3
\* observation ids handed out in one behaviour of the update specification
MaxObsUpdate == 4
\* entities of the relationship graphs getRelatedEntities is run on
MaxGraphEnt == 4
\* observations and entities created while context is exercised
MaxObsContext == 2
MaxEntContext == 3
\* observations and entities created while relationships are detected
MaxObsNotes == 4
\* observations stored by overlapping remember calls that detect relationships
MaxObsLinks == 3
\* observations stored while consolidate is exercised
MaxObsCluster == 5
\* observations stored while entities are forgotten and looked up again
MaxObsGone == 3
\* observations stored while recall is exercised
MaxObsRecall == 3
MaxEntNotes == 3

(***************************************************************************)
(* Values.                                                                 *)
(***************************************************************************)
\* SQL NULL / a missing optional string argument
NULL == "<null>"
\* a missing observation id (ids are positive)
NoId == 0
NoCall == [op |-> "idle"]
NoMatch == [similarity |-> 0, index |-> 0]

\* Contents are texts, written as their words; the text is the words joined
\* by single spaces, so <<"phd", "">> is "phd " (a trailing space).
cShort == <<"phd">>
cPad == <<"phd", "">>
cLong == <<"phd", "kar">>
cOther == <<"dog">>
cThird == <<"cat">>
\* "karolina created hippocampus", "see notes" and the topics of context
cCreator == <<"karolina", "created", "hippocampus">>
cNotes == <<"see", "notes">>
tNothing == <<"zzq">>
tEdge == <<"edge">>
tSee == <<"see">>
Contents == {cShort, cPad, cLong, cOther}
Names == {"kar"}
EntityArgs == Names \cup {NULL}
SlotIds == 1..MaxInFlight

RECURSIVE WordsLength(_)
WordsLength(ws) ==
  IF ws = <<>> THEN 0 ELSE Len(Head(ws)) + WordsLength(Tail(ws))

\* content.length of the text a word list stands for
ContentLength(c) == WordsLength(c) + (Len(c) - 1)

(***************************************************************************)
(* Embedder.  Vectors are unit vectors with components in thousandths, so  *)
(* a dot product is a cosine similarity in millionths.  The tokenizer      *)
(* ignores surrounding white space: "phd " embeds as "phd".                *)
(***************************************************************************)
generateEmbedding(text) ==
  CASE text = cShort -> <<1000, 0>>
    [] text = cPad -> <<1000, 0>>
    [] text = cLong -> <<960, 280>>
    [] text = cThird -> <<600, 800>>
    [] text = cCreator -> <<600, 800>>
    [] text = cNotes -> <<1000, 0>>
    [] text = tNothing -> <<-1000, 0>>
    [] text = tEdge -> <<-980, 200>>
    [] text = tSee -> <<-989, 150>>
    [] OTHER -> <<0, 1000>>

RECURSIVE DotFrom(_, _, _)
DotFrom(a, b, i) ==
  IF i > Len(a) THEN 0 ELSE a[i] * b[i] + DotFrom(a, b, i + 1)

cosineSimilarity(a, b) == DotFrom(a, b, 1)

\* 0.85, in millionths
DEDUP_THRESHOLD == 850000

(***************************************************************************)
(* Repositories (statement level; every statement commits on its own).     *)
(***************************************************************************)
findEntityByName(ents, name) == {e \in ents : e.name = name}
findEntityById(ents, id) == {e \in ents : e.id = id}
EntityIds(ents) == {e.id : e \in ents}
ObservationIds(obs) == {o.id : o \in obs}
ObservationById(obs, id) == CHOOSE o \in obs : o.id = id

\* variant: foreign keys are not enforced (PRAGMA foreign_keys left off)
CanCreateObservationUnchecked(ents, entityId) == TRUE
\* INSERT INTO observations: the foreign key needs the entity row
CanCreateObservation(ents, entityId) == entityId \in EntityIds(ents)
NewObservation(id, entityId, content, source) ==
  [id |-> id, entity_id |-> entityId, content |-> content, source |-> source]

\* INSERT INTO embeddings: the foreign keys need the entity and observation rows
CanStoreEmbedding(ents, obs, entityId, observationId) ==
  entityId \in EntityIds(ents) /\ observationId \in ObservationIds(obs)
\* variant: one embedding row per entity, the new row displacing the entity's others
storeEmbeddingPerEntity(embs, entityId, observationId, vector, textContent) ==
  Append(SelectSeq(embs, LAMBDA r : r.entity_id # entityId),
         [entity_id |-> entityId, observation_id |-> observationId,
          vector |-> vector, text_content |-> textContent])
storeEmbedding(embs, entityId, observationId, vector, textContent) ==
  Append(embs, [entity_id |-> entityId, observation_id |-> observationId,
                vector |-> vector, text_content |-> textContent])

deleteEmbedding(embs, observationId) ==
  SelectSeq(embs, LAMBDA r : r.observation_id # observationId)
deleteEmbeddingsByEntity(embs, entityId) ==
  SelectSeq(embs, LAMBDA r : r.entity_id # entityId)

\* variant: the DELETE compares the entity_id column
deleteObservationByEntityColumn(obs, id) == {o \in obs : o.entity_id # id}
\* DELETE FROM observations WHERE id = ?  (embeddings cascade)
deleteObservation(obs, id) == {o \in obs : o.id # id}
deleteObservationsByEntity(obs, entityId) == {o \in obs : o.entity_id # entityId}
CascadeEmbeddings(embs, ents, obs) ==
  SelectSeq(embs, LAMBDA r : r.entity_id \in EntityIds(ents)
                             /\ r.observation_id \in ObservationIds(obs))

RelRows(rels) == BagToSet(rels)
RelTouches(r, entityId) == r.from_entity = entityId \/ r.to_entity = entityId
\* variant: only a relationship from a to b counts
relationshipExistsDirected(rels, a, b) ==
  \E r \in RelRows(rels) : r.from_entity = a /\ r.to_entity = b
relationshipExists(rels, a, b) ==
  \E r \in RelRows(rels) :
     \/ r.from_entity = a /\ r.to_entity = b
     \/ r.from_entity = b /\ r.to_entity = a
createRelationship(rels, from, to, type) ==
  rels (+) SetToBag({[from_entity |-> from, to_entity |-> to, relation_type |-> type]})
RelRestrict(rels, keep) == [r \in keep |-> rels[r]]
deleteRelationshipsByEntity(rels, entityId) ==
  RelRestrict(rels, {r \in RelRows(rels) : ~RelTouches(r, entityId)})
RECURSIVE BagSum(_, _)
BagSum(rels, rows) ==
  IF rows = {} THEN 0
  ELSE LET r == CHOOSE x \in rows : TRUE IN rels[r] + BagSum(rels, rows \ {r})
RelationshipsTouching(rels, entityId) ==
  BagSum(rels, {r \in RelRows(rels) : RelTouches(r, entityId)})

\* variant: the DELETE matches no row
deleteEntityNoRow(ents, id) == ents
\* DELETE FROM entities WHERE id = ?  (observations, embeddings, relationships cascade)
deleteEntity(ents, id) == {e \in ents : e.id # id}
CascadeObservations(obs, ents) == {o \in obs : o.entity_id \in EntityIds(ents)}
CascadeRelationships(rels, ents) ==
  RelRestrict(rels, {r \in RelRows(rels) : r.from_entity \in EntityIds(ents)
                                           /\ r.to_entity \in EntityIds(ents)})

\* variant: a stale read that misses the newest embedding row
getEmbeddingsByEntityStale(embs, obs, ents, entityId) ==
  LET older == SubSeq(embs, 1, Len(embs) - 1)
      rows == SelectSeq(older, LAMBDA r : r.entity_id = entityId
                                          /\ r.entity_id \in EntityIds(ents)
                                          /\ r.observation_id \in ObservationIds(obs))
  IN [i \in 1..Len(rows) |->
        LET o == ObservationById(obs, rows[i].observation_id)
        IN [observation_id |-> rows[i].observation_id, entity_id |-> rows[i].entity_id,
            content |-> o.content, source |-> o.source, vector |-> rows[i].vector]]

\* variant: the dedup check reads the embeddings of every entity
getEmbeddingsOfAnyEntity(embs, obs, ents, entityId) ==
  LET rows == SelectSeq(embs, LAMBDA r : r.entity_id \in EntityIds(ents)
                                         /\ r.observation_id \in ObservationIds(obs))
  IN [i \in 1..Len(rows) |->
        LET o == ObservationById(obs, rows[i].observation_id)
        IN [observation_id |-> rows[i].observation_id, entity_id |-> rows[i].entity_id,
            content |-> o.content, source |-> o.source, vector |-> rows[i].vector]]

\* SELECT ... FROM embeddings JOIN observations JOIN entities WHERE emb.entity_id = ?
\* rows come in rowid (insertion) order
getEmbeddingsByEntity(embs, obs, ents, entityId) ==
  LET rows == SelectSeq(embs, LAMBDA r : r.entity_id = entityId
                                         /\ r.entity_id \in EntityIds(ents)
                                         /\ r.observation_id \in ObservationIds(obs))
  IN [i \in 1..Len(rows) |->
        LET o == ObservationById(obs, rows[i].observation_id)
        IN [observation_id |-> rows[i].observation_id, entity_id |-> rows[i].entity_id,
            content |-> o.content, source |-> o.source, vector |-> rows[i].vector]]

(***************************************************************************)
(* Entities.                                                               *)
(***************************************************************************)
NewEntity(id, name, type) == [id |-> id, name |-> name, type |-> type]

\* variant: the lookup is skipped and a row is always inserted
findOrCreateEntityAlwaysInsert(ents, name, type, freshId) ==
  ents \cup {NewEntity(freshId, name, type)}
\* findOrCreateEntity returns the row of that name, inserting it when missing
findOrCreateEntity(ents, name, type, freshId) ==
  IF findEntityByName(ents, name) # {}
  THEN ents
  ELSE ents \cup {NewEntity(freshId, name, type)}

EntityNamed(ents, name) == CHOOSE e \in ents : e.name = name

(***************************************************************************)
(* remember: best-match scan and relationship auto-detection.              *)
(***************************************************************************)
\* the for loop of remember over `existing`, from index i on
RECURSIVE BestMatchFrom(_, _, _, _)
BestMatchFrom(vector, existing, i, bestMatch) ==
  IF i > Len(existing) THEN bestMatch
  ELSE LET sim == cosineSimilarity(vector, existing[i].vector)
       IN IF sim >= DEDUP_THRESHOLD
             /\ (bestMatch = NoMatch \/ sim > bestMatch.similarity)
          THEN BestMatchFrom(vector, existing, i + 1, [similarity |-> sim, index |-> i])
          ELSE BestMatchFrom(vector, existing, i + 1, bestMatch)

\* variant: the scan stops at the first row above the threshold
BestMatchFirst(vector, existing) ==
  LET above == {i \in 1..Len(existing) :
                  cosineSimilarity(vector, existing[i].vector) >= DEDUP_THRESHOLD}
  IN IF above = {} THEN NoMatch
     ELSE LET i == CHOOSE x \in above : \A y \in above : x <= y
          IN [similarity |-> cosineSimilarity(vector, existing[i].vector), index |-> i]

BestMatch(vector, existing) == BestMatchFrom(vector, existing, 1, NoMatch)

\* variant: only a strictly longer match is kept
KeepsExistingStrict(match, content) == ContentLength(match.content) > ContentLength(content)
\* line 66: the stored match is at least as long as the new content
KeepsExisting(match, content) == ContentLength(match.content) >= ContentLength(content)

\* the branch remember takes against a store: "skip", "replace" or "insert"
Decision(embs, obs, ents, entityId, content) ==
  LET existing == getEmbeddingsByEntity(embs, obs, ents, entityId)
      bestMatch == BestMatch(generateEmbedding(content), existing)
  IN IF bestMatch = NoMatch THEN "insert"
     ELSE IF KeepsExisting(existing[bestMatch.index], content)
          THEN "skip" ELSE "replace"

SKIP_ENTITIES == {"general"}
MIN_NAME_LENGTH == 3

\* the 'i' flag of the pattern: contents are lower case, names may not be
ToLower(w) == IF w = "Kar" THEN "kar" ELSE w

\* new RegExp(`\\b${escaped}\\b`, 'i').test(content), for a name that is one
\* word: some word of the content is the name, whatever the case
PatternTest(name, content) == \E i \in 1..Len(content) : content[i] = ToLower(name)

\* variant: every other entity the content names is linked
LinkTargetsUnfiltered(ents, rels, sourceEntity, content) ==
  {c \in ents : /\ c.id # sourceEntity.id
                /\ PatternTest(c.name, content)
                /\ ~relationshipExists(rels, sourceEntity.id, c.id)}

\* the candidates detectAndCreateRelationships links the source entity to
LinkTargets(ents, rels, sourceEntity, content) ==
  {c \in ents : /\ c.id # sourceEntity.id
                /\ c.name \notin SKIP_ENTITIES
                /\ Len(c.name) >= MIN_NAME_LENGTH
                /\ PatternTest(c.name, content)
                /\ ~relationshipExists(rels, sourceEntity.id, c.id)}

RECURSIVE CreateRelationships(_, _, _)
CreateRelationships(rels, from, targets) ==
  IF targets = {} THEN rels
  ELSE LET t == CHOOSE x \in targets : TRUE
       IN CreateRelationships(createRelationship(rels, from, t.id, "relates_to"),
                              from, targets \ {t})

detectAndCreateRelationships(ents, rels, sourceEntity, content) ==
  CreateRelationships(rels, sourceEntity.id, LinkTargets(ents, rels, sourceEntity, content))

(***************************************************************************)
(* Calls in flight, and `last`: the outcome of the most recent step when    *)
(* that step finished a call (NoLast when it suspended one).                *)
(***************************************************************************)
NoContent == <<>>
NoLast == [op |-> "none"]
NoResult == [success |-> FALSE, none |-> TRUE]

Idle(s) == calls[s].op = "idle"

\* another step ran while the call was suspended
Touch(c) == IF c.op = "idle" THEN c ELSE [c EXCEPT !.solo = FALSE]

\* a suspended remember of the same entity and content learns what an
\* overlapping call stored
TouchStored(c, entityName, content, observationId) ==
  IF c.op = "remember" /\ c.entity.name = entityName /\ c.content = content
  THEN [c EXCEPT !.solo = FALSE, !.peer = observationId]
  ELSE Touch(c)

CallsAfter(s, rec) == [t \in SlotIds |-> IF t = s THEN rec ELSE Touch(calls[t])]

CallsAfterStored(s, entityName, content, observationId) ==
  [t \in SlotIds |-> IF t = s THEN NoCall
                     ELSE TouchStored(calls[t], entityName, content, observationId)]

Returned(s, op, input, result, c) ==
  [slot |-> s, op |-> op, status |-> "returned", input |-> input, result |-> result,
   solo |-> c.solo, pred |-> c.pred, peer |-> c.peer, snap |-> c.snap]

Raised(s, op, input, error, c) ==
  [slot |-> s, op |-> op, status |-> "raised", input |-> input,
   result |-> [success |-> FALSE, error |-> error],
   solo |-> c.solo, pred |-> c.pred, peer |-> c.peer, snap |-> c.snap]

\* history of a call that finishes in the step that starts it
Sync == [solo |-> TRUE, pred |-> NoResult, peer |-> NoId, snap |-> "none"]

(***************************************************************************)
(* remember                                                                *)
(***************************************************************************)
RememberInput(content, entityArg, typeArg, source) ==
  [content |-> content, entity |-> entityArg, type |-> typeArg, source |-> source]

\* lines 46-50: resolve the entity, then suspend on generateEmbedding
RememberBegin(s, content, entityArg, typeArg, source) ==
  LET entityName == IF entityArg = NULL THEN "general" ELSE entityArg
      input == RememberInput(content, entityArg, typeArg, source)
      ents == findOrCreateEntity(entities, entityName, typeArg, nextEntity)
      entity == EntityNamed(ents, entityName)
  IN /\ Idle(s)
     /\ entities' = ents
     /\ nextEntity' = IF ents # entities THEN nextEntity + 1 ELSE nextEntity
     /\ calls' = CallsAfter(s,
          [op |-> "remember", input |-> input, content |-> content, source |-> source,
           entity |-> entity, solo |-> TRUE, peer |-> NoId,
           pred |-> IF last.op = "remember" /\ last.input = input
                    THEN last.result ELSE NoResult,
           snap |-> Decision(embeddings, observations, ents, entity.id, content)])
     /\ last' = NoLast
     /\ UNCHANGED <<observations, embeddings, relationships, nextObs>>

RememberResult(entity, observationId, created, deduplicated, replaced) ==
  [success |-> TRUE, entityId |-> entity.id, entityName |-> entity.name,
   observationId |-> observationId, relationships_created |-> created,
   deduplicated |-> deduplicated, replaced_observation |-> replaced]

\* lines 63-77: the match is at least as long, nothing is written
RememberSkip(s, c, match) ==
  /\ last' = Returned(s, "remember", c.input,
               RememberResult(c.entity, match.observation_id, {}, TRUE, NoContent), c)
  /\ calls' = CallsAfter(s, NoCall)
  /\ UNCHANGED <<entities, observations, embeddings, relationships, nextEntity, nextObs>>

\* lines 79-98 (match given) and 100-113 (match absent): createObservation,
\* storeEmbedding and detectAndCreateRelationships after the optional delete
RememberStore(s, c, vector, hasMatch, match) ==
  LET embs0 == IF hasMatch THEN deleteEmbedding(embeddings, match.observation_id)
               ELSE embeddings
      obs0 == IF hasMatch THEN deleteObservation(observations, match.observation_id)
              ELSE observations
      embs1 == CascadeEmbeddings(embs0, entities, obs0)
      obs1 == obs0 \cup {NewObservation(nextObs, c.entity.id, c.content, c.source)}
      targets == LinkTargets(entities, relationships, c.entity, c.content)
  IN IF ~CanCreateObservation(entities, c.entity.id)
     THEN \* the INSERT violates the foreign key: remember raises
          /\ last' = Raised(s, "remember", c.input, "FOREIGN KEY constraint failed", c)
          /\ calls' = CallsAfter(s, NoCall)
          /\ observations' = obs0
          /\ embeddings' = embs1
          /\ UNCHANGED <<entities, relationships, nextEntity, nextObs>>
     ELSE /\ observations' = obs1
          /\ embeddings' = storeEmbedding(embs1, c.entity.id, nextObs, vector, c.content)
          /\ relationships' =
               detectAndCreateRelationships(entities, relationships, c.entity, c.content)
          /\ nextObs' = nextObs + 1
          /\ last' = Returned(s, "remember", c.input,
                       RememberResult(c.entity, nextObs, {t.name : t \in targets}, FALSE,
                                      IF hasMatch THEN match.content ELSE NoContent), c)
          /\ calls' = CallsAfterStored(s, c.entity.name, c.content, nextObs)
          /\ UNCHANGED <<entities, nextEntity>>

\* lines 50-113: the embedder has returned
RememberResume(s) ==
  LET c == calls[s]
      vector == generateEmbedding(c.content)
      existing == getEmbeddingsByEntity(embeddings, observations, entities, c.entity.id)
      bestMatch == BestMatch(vector, existing)
      match == existing[bestMatch.index]
  IN /\ c.op = "remember"
     /\ IF bestMatch # NoMatch
        THEN IF KeepsExisting(match, c.content)
             THEN RememberSkip(s, c, match)
             ELSE RememberStore(s, c, vector, TRUE, match)
        ELSE RememberStore(s, c, vector, FALSE, NoMatch)

(***************************************************************************)
(* update                                                                  *)
(***************************************************************************)
UpdateInput(entityArg, oldContent, newContent) ==
  [entity |-> entityArg, old_content |-> oldContent, new_content |-> newContent]

UpdateFailure == [success |-> FALSE, observationId |-> NoId]

\* variant: an observation that embeds like old_content counts as a match
NearMatches(obs, entityId, oldContent) ==
  {o \in obs : /\ o.entity_id = entityId
               /\ generateEmbedding(o.content) = generateEmbedding(oldContent)}
\* lines 27-28: the observations `find` can return, o.content === input.old_content
ExactMatches(obs, entityId, oldContent) ==
  {o \in obs : o.entity_id = entityId /\ o.content = oldContent}

\* lines 18-39: look the target up, insert the new observation, then suspend
\* on generateEmbedding.  getObservationsByEntity orders by created_at, which
\* has a resolution of one second, so any observation of that content may be
\* the one `find` meets first.
UpdateBegin(s, entityArg, oldContent, newContent) ==
  LET input == UpdateInput(entityArg, oldContent, newContent)
      found == findEntityByName(entities, entityArg)
      entity == EntityNamed(entities, entityArg)
      matches == ExactMatches(observations, entity.id, oldContent)
  IN /\ Idle(s)
     /\ IF found = {} \/ matches = {}
        THEN /\ last' = Returned(s, "update", input, UpdateFailure, Sync)
             /\ calls' = CallsAfter(s, NoCall)
             /\ UNCHANGED <<entities, observations, embeddings, relationships,
                            nextEntity, nextObs>>
        ELSE \E target \in matches :
             /\ observations' = observations \cup
                  {NewObservation(nextObs, entity.id, newContent, target.source)}
             /\ nextObs' = nextObs + 1
             /\ calls' = CallsAfter(s,
                  [op |-> "update", input |-> input, entity |-> entity,
                   target |-> target, newObs |-> nextObs, solo |-> TRUE,
                   pred |-> NoResult, peer |-> NoId, snap |-> "none"])
             /\ last' = NoLast
             /\ UNCHANGED <<entities, embeddings, relationships, nextEntity>>

\* lines 39-52: the embedder has returned
UpdateResume(s) ==
  LET c == calls[s]
      vector == generateEmbedding(c.input.new_content)
      embs1 == storeEmbedding(embeddings, c.entity.id, c.newObs, vector, c.input.new_content)
      obs2 == deleteObservation(observations, c.target.id)
  IN /\ c.op = "update"
     /\ calls' = CallsAfter(s, NoCall)
     /\ IF ~CanStoreEmbedding(entities, observations, c.entity.id, c.newObs)
        THEN /\ last' = Raised(s, "update", c.input, "FOREIGN KEY constraint failed", c)
             /\ UNCHANGED <<entities, observations, embeddings, relationships,
                            nextEntity, nextObs>>
        ELSE /\ observations' = obs2
             /\ embeddings' = CascadeEmbeddings(deleteEmbedding(embs1, c.target.id),
                                                entities, obs2)
             /\ last' = Returned(s, "update", c.input,
                          [success |-> TRUE, observationId |-> c.newObs], c)
             /\ UNCHANGED <<entities, relationships, nextEntity, nextObs>>

(***************************************************************************)
(* merge                                                                   *)
(***************************************************************************)
MergeInput(ids, content) == [observation_ids |-> ids, content |-> content]

\* the rows of the requested ids, in request order, missing ids left out
getObservationsByIds(obs, ids) ==
  LET present == SelectSeq(ids, LAMBDA id : id \in ObservationIds(obs))
  IN [i \in 1..Len(present) |-> ObservationById(obs, present[i])]

\* observations.find(o => o.source !== null)?.source ?? null
RECURSIVE FirstSource(_)
FirstSource(rows) ==
  IF rows = <<>> THEN NULL
  ELSE IF Head(rows).source # NULL THEN Head(rows).source ELSE FirstSource(Tail(rows))

SeqRange(q) == {q[i] : i \in 1..Len(q)}

\* variant: the same-entity check is left out
MergeErrorAnyEntity(ents, rows, ids) ==
  LET foundIds == {rows[i].id : i \in 1..Len(rows)}
      missingIds == SelectSeq(ids, LAMBDA id : id \notin foundIds)
  IN IF Len(missingIds) > 0 THEN "Observations not found"
     ELSE IF Len(rows) = 0 THEN "TypeError"
     ELSE IF findEntityById(ents, rows[1].entity_id) = {} THEN "Entity not found"
     ELSE ""

\* lines 121-139: the error merge throws before it writes, "" when it goes on
\* (an empty id list fails on observations[0].entity_id)
MergeError(ents, rows, ids) ==
  LET foundIds == {rows[i].id : i \in 1..Len(rows)}
      missingIds == SelectSeq(ids, LAMBDA id : id \notin foundIds)
      entityIds == {rows[i].entity_id : i \in 1..Len(rows)}
  IN IF Len(missingIds) > 0 THEN "Observations not found"
     ELSE IF Cardinality(entityIds) > 1 THEN "All observations must belong to the same entity"
     ELSE IF Len(rows) = 0 THEN "TypeError"
     ELSE IF findEntityById(ents, rows[1].entity_id) = {} THEN "Entity not found"
     ELSE ""

\* lines 119-145: validate, then suspend on generateEmbedding
MergeBegin(s, ids, content) ==
  LET input == MergeInput(ids, content)
      rows == getObservationsByIds(observations, ids)
      error == MergeError(entities, rows, ids)
  IN /\ Idle(s)
     /\ UNCHANGED <<entities, observations, embeddings, relationships, nextEntity, nextObs>>
     /\ IF error # ""
        THEN /\ last' = Raised(s, "merge", input, error, Sync)
             /\ calls' = CallsAfter(s, NoCall)
        ELSE /\ calls' = CallsAfter(s,
                  [op |-> "merge", input |-> input, rows |-> rows,
                   entity |-> CHOOSE e \in entities : e.id = rows[1].entity_id,
                   mergeSource |-> FirstSource(rows), solo |-> TRUE,
                   pred |-> NoResult, peer |-> NoId, snap |-> "none"])
             /\ last' = NoLast

\* the loop of lines 150-153 from row i on
RECURSIVE DeleteMerged(_, _, _)
DeleteMerged(embsObs, rows, i) ==
  IF i > Len(rows) THEN embsObs
  ELSE DeleteMerged(<<deleteEmbedding(embsObs[1], rows[i].id),
                      deleteObservation(embsObs[2], rows[i].id)>>, rows, i + 1)

\* lines 145-161: the embedder has returned
MergeResume(s) ==
  LET c == calls[s]
      vector == generateEmbedding(c.input.content)
      obs1 == observations \cup
                {NewObservation(nextObs, c.entity.id, c.input.content, c.mergeSource)}
      embs1 == storeEmbedding(embeddings, c.entity.id, nextObs, vector, c.input.content)
      after == DeleteMerged(<<embs1, obs1>>, c.rows, 1)
  IN /\ c.op = "merge"
     /\ calls' = CallsAfter(s, NoCall)
     /\ IF ~CanCreateObservation(entities, c.entity.id)
        THEN /\ last' = Raised(s, "merge", c.input, "FOREIGN KEY constraint failed", c)
             /\ UNCHANGED <<entities, observations, embeddings, relationships,
                            nextEntity, nextObs>>
        ELSE /\ observations' = after[2]
             /\ embeddings' = CascadeEmbeddings(after[1], entities, after[2])
             /\ nextObs' = nextObs + 1
             /\ last' = Returned(s, "merge", c.input,
                          [success |-> TRUE, new_observation_id |-> nextObs,
                           merged_count |-> Len(c.rows), entity_name |-> c.entity.name], c)
             /\ UNCHANGED <<entities, relationships, nextEntity>>

(***************************************************************************)
(* forget                                                                  *)
(***************************************************************************)
ForgetInput(entityArg, observationId) ==
  [entity |-> entityArg, observation_id |-> observationId]

ForgetResult(success, obsCount, embCount, relCount, entityDeleted) ==
  [success |-> success,
   deleted |-> [observations |-> obsCount, embeddings |-> embCount,
                relationships |-> relCount, entity |-> entityDeleted]]

\* result.changes of the DELETEs on embeddings
EmbeddingsOfObservation(embs, id) == Len(SelectSeq(embs, LAMBDA r : r.observation_id = id))
EmbeddingsOfEntity(embs, id) == Len(SelectSeq(embs, LAMBDA r : r.entity_id = id))

\* history of a forget call: the result of the same call made just before it
ForgetHistory(input) ==
  [Sync EXCEPT !.pred = IF last.op = "forget" /\ last.input = input
                        THEN last.result ELSE NoResult]

\* lines 31-48: delete one observation, embedding first
ForgetObservation(input) ==
  LET id == input.observation_id
      embDeleted == EmbeddingsOfObservation(embeddings, id) > 0
      obsDeleted == id \in ObservationIds(observations)
      obs1 == deleteObservation(observations, id)
  IN /\ embeddings' = CascadeEmbeddings(deleteEmbedding(embeddings, id), entities, obs1)
     /\ observations' = obs1
     /\ last' = Returned(0, "forget", input,
                  ForgetResult(obsDeleted, IF obsDeleted THEN 1 ELSE 0,
                               IF embDeleted THEN 1 ELSE 0, 0, FALSE), ForgetHistory(input))
     /\ UNCHANGED <<entities, relationships>>

\* lines 50-74: delete an entity and everything that refers to it
ForgetEntity(input) ==
  LET found == findEntityByName(entities, input.entity)
      entity == EntityNamed(entities, input.entity)
      embCount == EmbeddingsOfEntity(embeddings, entity.id)
      obsCount == Cardinality({o \in observations : o.entity_id = entity.id})
      relCount == RelationshipsTouching(relationships, entity.id)
      ents1 == deleteEntity(entities, entity.id)
      obs1 == CascadeObservations(deleteObservationsByEntity(observations, entity.id), ents1)
  IN IF found = {}
     THEN /\ last' = Returned(0, "forget", input, ForgetResult(FALSE, 0, 0, 0, FALSE), ForgetHistory(input))
          /\ UNCHANGED <<entities, observations, embeddings, relationships>>
     ELSE /\ embeddings' = CascadeEmbeddings(deleteEmbeddingsByEntity(embeddings, entity.id),
                                             ents1, obs1)
          /\ observations' = obs1
          /\ relationships' =
               CascadeRelationships(deleteRelationshipsByEntity(relationships, entity.id), ents1)
          /\ entities' = ents1
          /\ last' = Returned(0, "forget", input,
                       ForgetResult(TRUE, obsCount, embCount, relCount, TRUE), ForgetHistory(input))

\* lines 22-74
Forget(entityArg, observationId) ==
  LET input == ForgetInput(entityArg, observationId)
  IN /\ calls' = CallsAfter(0, NoCall)
     /\ UNCHANGED <<nextEntity, nextObs>>
     /\ IF entityArg = NULL /\ observationId = NoId
        THEN /\ last' = Returned(0, "forget", input, ForgetResult(FALSE, 0, 0, 0, FALSE), ForgetHistory(input))
             /\ UNCHANGED <<entities, observations, embeddings, relationships>>
        ELSE IF observationId # NoId
             THEN ForgetObservation(input)
             ELSE ForgetEntity(input)

(***************************************************************************)
(* export (JSON): the entity names of the export                           *)
(***************************************************************************)
\* exportMemories({format: 'json'}) lists every entity row with its observations
ExportJson(ents, obs) ==
  {[name |-> e.name, type |-> e.type,
    observations |-> {[id |-> o.id, content |-> o.content, source |-> o.source] :
                        o \in {x \in obs : x.entity_id = e.id}}] : e \in ents}

(***************************************************************************)
(* Specification.                                                          *)
(***************************************************************************)
\* db/schema.ts: the version initializeSchema leaves in schema_version
SCHEMA_VERSION == 2

\* the backfill before it has run
NoBackfill ==
  [status |-> "idle", missing |-> <<>>, count |-> 0, failed |-> {}, cause |-> "none",
   logged |-> FALSE]

\* The server once it serves requests: the database opened at the current
\* schema version, no backfill under way, the OAuth maps and the limiter's
\* windows empty.
\* oauth.ts, rate-limit.ts: the in-memory maps at module load
NoSessions ==
  /\ authCodes = {}
  /\ accessTokens = {}
  /\ refreshTokens = {}
  /\ nextToken = 1
  /\ issued = {}
  /\ windows = {}
  /\ now = 0
  /\ clients = {}
  /\ passed = {}

Serving ==
  /\ db = [status |-> "open", version |-> SCHEMA_VERSION, handle |-> "verified"]
  /\ backfill = NoBackfill
  /\ NoSessions

Init ==
  /\ entities = {}
  /\ observations = {}
  /\ embeddings = <<>>
  /\ relationships = EmptyBag
  /\ nextEntity = 1
  /\ nextObs = 1
  /\ calls = [s \in SlotIds |-> NoCall]
  /\ last = NoLast
  /\ Serving

RECURSIVE SeqsUpTo(_, _)
SeqsUpTo(S, n) ==
  IF n = 0 THEN {<<>>}
  ELSE LET shorter == SeqsUpTo(S, n - 1)
       IN shorter \cup {Append(q, x) : q \in shorter, x \in S}

\* ids a caller may name: those handed out so far and one that never was
KnownIds(maxObs) == 1..maxObs

\* one id, or two in increasing order
IncreasingPairs(maxObs) ==
  {<<a>> : a \in KnownIds(maxObs)} \cup
  {q \in {<<a, b>> : a \in KnownIds(maxObs), b \in KnownIds(maxObs)} : q[1] < q[2]}

\* the id counters stay within the bounds of a specification
Within(maxObs) == nextObs' <= maxObs + 1 /\ nextEntity' <= MaxEnt + 1

\* a free slot for a new call (the lowest: slots are names only)
FreeSlots == {s \in SlotIds : Idle(s) /\ \A t \in 1..(s - 1) : ~Idle(t)}

\* remember, update, merge and forget, any number of them suspended at once
Next ==
  /\ \/ \E s \in FreeSlots, content \in {cShort, cPad} :
           RememberBegin(s, content, "kar", NULL, NULL)
     \/ \E s \in SlotIds : RememberResume(s)
     \/ \E s \in FreeSlots : UpdateBegin(s, "kar", cShort, cOther)
     \/ \E s \in SlotIds : UpdateResume(s)
     \/ \E s \in FreeSlots, ids \in IncreasingPairs(MaxObs) : MergeBegin(s, ids, cOther)
     \/ \E s \in SlotIds : MergeResume(s)
     \/ \E observationId \in KnownIds(MaxObs) : Forget(NULL, observationId)
     \/ Forget("kar", NoId)
  /\ Within(MaxObs)
  /\ UNCHANGED platform

Spec == Init /\ [][Next]_vars

\* one call at a time: remember and update
NextRemember ==
  /\ \/ \E content \in Contents, entityArg \in EntityArgs :
           RememberBegin(1, content, entityArg, NULL, NULL)
     \/ RememberResume(1)
     \/ \E oldContent \in Contents, newContent \in Contents :
           UpdateBegin(1, "kar", oldContent, newContent)
     \/ UpdateResume(1)
  /\ Within(MaxObsRemember)
  /\ UNCHANGED platform

SpecRemember == Init /\ [][NextRemember]_vars

\* three dissimilar observations for one entity, with and without a source,
\* and one for the default entity
MergeRememberArgs ==
  {<<cShort, "kar", "conv">>, <<cShort, "kar", NULL>>, <<cOther, "kar", "user">>,
   <<cOther, "kar", NULL>>, <<cThird, "kar", NULL>>, <<cOther, NULL, NULL>>}

MergeIdArgs == SeqsUpTo(KnownIds(MaxObsMerge - 1), MaxMergeIds)

\* one call at a time: remember and merge
NextMerge ==
  /\ \/ \E a \in MergeRememberArgs : RememberBegin(1, a[1], a[2], NULL, a[3])
     \/ RememberResume(1)
     \/ \E ids \in MergeIdArgs : MergeBegin(1, ids, cLong)
     \/ MergeResume(1)
  /\ Within(MaxObsMerge)
  /\ UNCHANGED platform

SpecMerge == Init /\ [][NextMerge]_vars

\* one call at a time: remember and forget
NextForget ==
  /\ \/ \E content \in {cLong, cOther}, entityArg \in EntityArgs :
           RememberBegin(1, content, entityArg, NULL, NULL)
     \/ RememberResume(1)
     \/ \E entityArg \in {"kar", "general", NULL},
           observationId \in KnownIds(MaxObsForget) \cup {NoId} :
           Forget(entityArg, observationId)
  /\ Within(MaxObsForget)
  /\ UNCHANGED platform

SpecForget == Init /\ [][NextForget]_vars

(***************************************************************************)
(* Tool handlers of the server: zod validation of the raw arguments, then  *)
(* control-character stripping, then the tool.  "\f" (form feed, 0x0C) is  *)
(* one of the stripped characters.                                         *)
(***************************************************************************)
MAX_CONTENT_LENGTH == 2000

cFeed == <<"\f">>
cDogFeed == <<"do\fg">>
cEmpty == <<"">>
RawContents == {cEmpty, cFeed, cDogFeed, cOther}

\* w.replace(/[\x00-\x08\x0B\x0C\x0E-\x1F]/g, '') on the words in use
StripWord(w) ==
  CASE w = "\f" -> ""
    [] w = "do\fg" -> "dog"
    [] OTHER -> w
StripControl(c) == [i \in DOMAIN c |-> StripWord(c[i])]

\* z.string().min(1).max(2000), applied to the raw argument
ContentAccepted(raw) ==
  ContentLength(raw) >= 1 /\ ContentLength(raw) <= MAX_CONTENT_LENGTH

\* the SDK answers a failed validation with an error, the tool is not called
RejectArguments(s, op, input) ==
  /\ Idle(s)
  /\ last' = Raised(s, op, input, "Invalid arguments", Sync)
  /\ calls' = CallsAfter(s, NoCall)
  /\ UNCHANGED <<entities, observations, embeddings, relationships, nextEntity, nextObs>>

\* server.tool('remember')
RememberTool(s, raw, entityArg) ==
  IF ContentAccepted(raw)
  THEN RememberBegin(s, StripControl(raw), entityArg, NULL, NULL)
  ELSE RejectArguments(s, "remember", RememberInput(raw, entityArg, NULL, NULL))

\* server.tool('update')
UpdateTool(s, entityArg, oldContent, raw) ==
  IF ContentAccepted(oldContent) /\ ContentAccepted(raw)
  THEN UpdateBegin(s, entityArg, oldContent, StripControl(raw))
  ELSE RejectArguments(s, "update", UpdateInput(entityArg, oldContent, raw))

\* remember and update called through their handlers, one call at a time
NextTools ==
  /\ \/ \E raw \in RawContents, entityArg \in EntityArgs : RememberTool(1, raw, entityArg)
     \/ RememberResume(1)
     \/ \E oldContent \in {cOther, cEmpty}, raw \in RawContents :
           UpdateTool(1, "kar", oldContent, raw)
     \/ UpdateResume(1)
  /\ Within(MaxObsTools)
  /\ UNCHANGED platform

SpecTools == Init /\ [][NextTools]_vars

\* one call at a time: update of stored observations with and without a source
UpdateOldArgs == {cShort, cPad, cOther}
UpdateNewArgs == {cShort, cLong, cOther}

NextUpdate ==
  /\ \/ \E content \in {cShort, cOther}, entityArg \in EntityArgs, source \in {NULL, "conv"} :
           RememberBegin(1, content, entityArg, NULL, source)
     \/ RememberResume(1)
     \/ \E oldContent \in UpdateOldArgs, newContent \in UpdateNewArgs :
           UpdateBegin(1, "kar", oldContent, newContent)
     \/ UpdateResume(1)
  /\ Within(MaxObsUpdate)
  /\ UNCHANGED platform

SpecUpdate == Init /\ [][NextUpdate]_vars

(***************************************************************************)
(* getRelatedEntities: breadth-first traversal of the relationship graph.  *)
(***************************************************************************)
\* variant: only relationships leaving the entity are followed
RelatedIdsOutgoing(rels, ents, id) ==
  {r.to_entity : r \in {x \in RelRows(rels) : x.from_entity = id /\ x.to_entity \in EntityIds(ents)}}
\* stmt.all(current.id, ...): the other end of every relationship at the entity
RelatedIds(rels, ents, id) ==
  {IF r.from_entity = id THEN r.to_entity ELSE r.from_entity :
     r \in {x \in RelRows(rels) :
              /\ RelTouches(x, id)
              /\ (IF x.from_entity = id THEN x.to_entity ELSE x.from_entity) \in EntityIds(ents)}}

\* some order of the rows of a result set
RECURSIVE SetToSeq(_)
SetToSeq(S) ==
  IF S = {} THEN <<>>
  ELSE LET x == CHOOSE y \in S : TRUE IN <<x>> \o SetToSeq(S \ {x})

\* the while loop of getRelatedEntities; visited maps ids to depths
RECURSIVE RelatedLoop(_, _, _, _, _, _)
RelatedLoop(rels, ents, entityId, maxDepth, queue, visited) ==
  IF queue = <<>> THEN visited
  ELSE LET current == Head(queue)
           rest == Tail(queue)
       IN IF current.id \in {v.id : v \in visited} \/ current.depth > maxDepth
          THEN RelatedLoop(rels, ents, entityId, maxDepth, rest, visited)
          ELSE LET marked ==
                     IF current.id # entityId
                     THEN IF findEntityById(ents, current.id) # {}
                          THEN visited \cup {[id |-> current.id, depth |-> current.depth]}
                          ELSE visited
                     ELSE visited \cup {[id |-> current.id, depth |-> 0]}
                   related == SetToSeq(RelatedIds(rels, ents, current.id))
                   pushed == SelectSeq(related, LAMBDA id : id \notin {v.id : v \in marked})
                   more == [i \in 1..Len(pushed) |->
                              [id |-> pushed[i], depth |-> current.depth + 1]]
               IN RelatedLoop(rels, ents, entityId, maxDepth,
                              IF current.depth < maxDepth THEN rest \o more ELSE rest,
                              marked)

\* the map returned, as the set of its [id, depth] entries
getRelatedEntities(rels, ents, entityId, maxDepth) ==
  {v \in RelatedLoop(rels, ents, entityId, maxDepth,
                      <<[id |-> entityId, depth |-> 0]>>, {}) : v.id # entityId}

\* names of the entities of a graph, by id
GraphNames == <<"karolina", "hippocampus", "notes", "sqlcipher", "helsinki", "caper">>
GraphPairs == {p \in (1..MaxGraphEnt) \X (1..MaxGraphEnt) : p[1] < p[2]}
\* depth: z.number().min(0).max(3)
MAX_DEPTH == 3

\* a store of MaxGraphEnt entities and any set of relationships between them
InitGraph ==
  /\ entities = {NewEntity(i, GraphNames[i], NULL) : i \in 1..MaxGraphEnt}
  /\ \E edges \in SUBSET GraphPairs :
       relationships = SetToBag({[from_entity |-> p[1], to_entity |-> p[2],
                                  relation_type |-> "relates_to"] : p \in edges})
  /\ observations = {}
  /\ embeddings = <<>>
  /\ nextEntity = MaxGraphEnt + 1
  /\ nextObs = 1
  /\ calls = [s \in SlotIds |-> NoCall]
  /\ last = NoLast
  /\ Serving

\* a call of getRelatedEntities
Related(entityId, maxDepth) ==
  /\ last' = [op |-> "getRelatedEntities",
              input |-> [entityId |-> entityId, maxDepth |-> maxDepth],
              result |-> getRelatedEntities(relationships, entities, entityId, maxDepth)]
  /\ UNCHANGED <<entities, observations, embeddings, relationships, nextEntity, nextObs, calls>>

NextRelated ==
  /\ \E entityId \in 1..MaxGraphEnt, maxDepth \in 0..MAX_DEPTH : Related(entityId, maxDepth)
  /\ UNCHANGED platform

SpecRelated == InitGraph /\ [][NextRelated]_vars

(***************************************************************************)
(* context: resolve the topic, then gather the entity and its neighbours.  *)
(***************************************************************************)
\* the characters of the names and topics used with context
Chars(str) ==
  CASE str = "karolina" -> <<"k", "a", "r", "o", "l", "i", "n", "a">>
    [] str = "hippocampus" -> <<"h", "i", "p", "p", "o", "c", "a", "m", "p", "u", "s">>
    [] str = "notes" -> <<"n", "o", "t", "e", "s">>
    [] str = "general" -> <<"g", "e", "n", "e", "r", "a", "l">>
    [] str = "hippo" -> <<"h", "i", "p", "p", "o">>
    [] str = "NOTE" -> <<"N", "O", "T", "E">>
    [] str = "k_r" -> <<"k", "_", "r">>
    [] str = "zzq" -> <<"z", "z", "q">>
    [] str = "edge" -> <<"e", "d", "g", "e">>
    [] str = "dog" -> <<"d", "o", "g">>
    [] str = "cat" -> <<"c", "a", "t">>
    [] str = "see" -> <<"s", "e", "e">>

\* SQLite folds the case of ASCII letters for LIKE
LowerChar(ch) ==
  CASE ch = "N" -> "n" [] ch = "O" -> "o" [] ch = "T" -> "t" [] ch = "E" -> "e"
    [] OTHER -> ch

\* name LIKE pattern: % matches any run of characters, _ any one character
RECURSIVE LikeMatch(_, _)
LikeMatch(pattern, str) ==
  IF pattern = <<>> THEN str = <<>>
  ELSE IF Head(pattern) = "%"
       THEN LikeMatch(Tail(pattern), str)
            \/ (str # <<>> /\ LikeMatch(pattern, Tail(str)))
       ELSE IF Head(pattern) = "_"
            THEN str # <<>> /\ LikeMatch(Tail(pattern), Tail(str))
            ELSE /\ str # <<>>
                 /\ LowerChar(Head(pattern)) = LowerChar(Head(str))
                 /\ LikeMatch(Tail(pattern), Tail(str))

\* SELECT * FROM entities WHERE name LIKE '%query%'
searchEntities(ents, query) ==
  {e \in ents : LikeMatch(<<"%">> \o Chars(query) \o <<"%">>, Chars(e.name))}

\* 0.2, in millionths
SEMANTIC_THRESHOLD == 200000

\* the rows semanticSearch scores: embeddings joined to observations and entities
SemanticRows(embs, obs, ents, queryVector) ==
  {[observation_id |-> embs[i].observation_id, entity_id |-> embs[i].entity_id,
    similarity |-> cosineSimilarity(queryVector, embs[i].vector)] :
     i \in {j \in 1..Len(embs) : /\ embs[j].entity_id \in EntityIds(ents)
                                 /\ embs[j].observation_id \in ObservationIds(obs)}}

\* semanticResults[0]: a row no other row scores above
TopHits(rows) == {r \in rows : \A q \in rows : q.similarity <= r.similarity}

\* variant: the top hit has to score above the threshold
SemanticEntitiesAbove(embs, obs, ents, topic) ==
  {e \in ents : \E r \in TopHits(SemanticRows(embs, obs, ents, generateEmbedding(<<topic>>))) :
                  r.similarity > SEMANTIC_THRESHOLD /\ r.entity_id = e.id}
\* lines 44-52: the owners of a top hit that reaches the threshold
SemanticEntities(embs, obs, ents, topic) ==
  {e \in ents : \E r \in TopHits(SemanticRows(embs, obs, ents, generateEmbedding(<<topic>>))) :
                  r.similarity >= SEMANTIC_THRESHOLD /\ r.entity_id = e.id}

ContextInput(topic, depth) == [topic |-> topic, depth |-> depth]

\* Math.min(Math.max(input.depth ?? 1, 0), 3); the optional depth is <<>> when
\* it is left out and <<d>> when it is given
ClampDepth(depth) ==
  IF depth = <<>> THEN 1
  ELSE IF depth[1] < 0 THEN 0 ELSE IF depth[1] > MAX_DEPTH THEN MAX_DEPTH ELSE depth[1]

ContextNotFound ==
  [success |-> FALSE, entity |-> NULL, observations |-> {}, relationships |-> {},
   related_entities |-> {}]

NameOfEntity(ents, id) == (CHOOSE e \in ents : e.id = id).name

\* variant: the traversal stops one hop short
ContextFoundShallow(ents, obs, rels, entity, depth) ==
  [success |-> TRUE, entity |-> entity.name,
   observations |-> {o.id : o \in {x \in obs : x.entity_id = entity.id}},
   relationships |->
     {[from |-> NameOfEntity(ents, r.from_entity), to |-> NameOfEntity(ents, r.to_entity),
       type |-> r.relation_type] :
        r \in {x \in RelRows(rels) : RelTouches(x, entity.id)}},
   related_entities |->
     {NameOfEntity(ents, v.id) :
        v \in getRelatedEntities(rels, ents, entity.id, IF depth > 0 THEN depth - 1 ELSE 0)}]
\* lines 63-98: observations, direct relationships and related entities
ContextFound(ents, obs, rels, entity, depth) ==
  [success |-> TRUE, entity |-> entity.name,
   observations |-> {o.id : o \in {x \in obs : x.entity_id = entity.id}},
   relationships |->
     {[from |-> NameOfEntity(ents, r.from_entity), to |-> NameOfEntity(ents, r.to_entity),
       type |-> r.relation_type] :
        r \in {x \in RelRows(rels) : RelTouches(x, entity.id)}},
   related_entities |->
     {NameOfEntity(ents, v.id) : v \in getRelatedEntities(rels, ents, entity.id, depth)}]

\* history of a context call: the result of a forget of the topic's entity
\* made just before it
ContextHistory(topic) ==
  [Sync EXCEPT !.pred = IF last.op = "forget" /\ last.input.entity = topic
                        THEN last.result ELSE NoResult]

\* lines 31-43: the exact name, else a row of the LIKE search (its first row
\* is the one updated last, an order the rows of the model do not carry)
ContextBegin(s, topic, depth) ==
  LET input == ContextInput(topic, depth)
      exact == findEntityByName(entities, topic)
      likeResults == searchEntities(entities, topic)
      found == IF exact # {} THEN exact ELSE likeResults
  IN /\ Idle(s)
     /\ IF found # {}
        THEN /\ \E entity \in found :
                  last' = [Returned(s, "context", input,
                                    ContextFound(entities, observations, relationships,
                                                 entity, ClampDepth(depth)),
                                    ContextHistory(topic))
                             EXCEPT !.snap = [semantic |-> FALSE, embedded |-> FALSE]]
             /\ calls' = CallsAfter(s, NoCall)
        ELSE /\ calls' = CallsAfter(s,
                  [op |-> "context", input |-> input, solo |-> TRUE, peer |-> NoId,
                   pred |-> ContextHistory(topic).pred, snap |-> "none"])
             /\ last' = NoLast
     /\ UNCHANGED <<entities, observations, embeddings, relationships, nextEntity, nextObs>>

\* lines 45-98: semanticSearch has returned its hits, or failed and was caught
ContextResume(s, embedded) ==
  LET c == calls[s]
      found == IF embedded
               THEN SemanticEntities(embeddings, observations, entities, c.input.topic)
               ELSE {}
  IN /\ c.op = "context"
     /\ IF found # {}
        THEN \E entity \in found :
               last' = [Returned(s, "context", c.input,
                                 ContextFound(entities, observations, relationships,
                                              entity, ClampDepth(c.input.depth)), c)
                          EXCEPT !.snap = [semantic |-> TRUE, embedded |-> embedded]]
        ELSE last' = [Returned(s, "context", c.input, ContextNotFound, c)
                        EXCEPT !.snap = [semantic |-> TRUE, embedded |-> embedded]]
     /\ calls' = CallsAfter(s, NoCall)
     /\ UNCHANGED <<entities, observations, embeddings, relationships, nextEntity, nextObs>>

ContextNames == {"karolina", "hippocampus", "notes"}
ContextContents == {cOther, cNotes}
ContextTopics == {"karolina", "hippo", "NOTE", "k_r", "zzq", "edge", "dog"}
ContextDepths == {<<>>, <<0>>, <<1>>, <<2>>}

\* remember and context, one call at a time
NextContext ==
  /\ \/ \E content \in ContextContents, entityArg \in ContextNames :
           RememberBegin(1, content, entityArg, NULL, NULL)
     \/ RememberResume(1)
     \/ \E topic \in ContextTopics, depth \in ContextDepths : ContextBegin(1, topic, depth)
     \/ \E embedded \in BOOLEAN : ContextResume(1, embedded)
  /\ nextObs' <= MaxObsContext + 1
  /\ nextEntity' <= MaxEntContext + 1
  /\ UNCHANGED platform

SpecContext == Init /\ [][NextContext]_vars

NotesContents == {cOther, cCreator, cNotes}
NotesDepths == {<<1>>, <<2>>}

\* remember under three entities whose contents name each other, and context
\* for karolina
NextNotes ==
  /\ \/ \E content \in NotesContents, entityArg \in ContextNames :
           RememberBegin(1, content, entityArg, NULL, NULL)
     \/ RememberResume(1)
     \/ \E depth \in NotesDepths : ContextBegin(1, "karolina", depth)
     \/ \E embedded \in BOOLEAN : ContextResume(1, embedded)
  /\ nextObs' <= MaxObsNotes + 1
  /\ nextEntity' <= MaxEntNotes + 1
  /\ UNCHANGED platform

SpecNotes == Init /\ [][NextNotes]_vars

(***************************************************************************)
(* recall: semantic hits first, then keyword hits.                         *)
(***************************************************************************)
\* 0.15, in millionths
SIMILARITY_THRESHOLD == 150000

RecallInput(query, limit) == [query |-> query, limit |-> limit]

\* the characters of a text: its words joined by single spaces
RECURSIVE TextChars(_)
TextChars(content) ==
  IF Len(content) = 1 THEN Chars(content[1])
  ELSE Chars(content[1]) \o <<" ">> \o TextChars(Tail(content))

\* descending ids: ORDER BY o.created_at DESC, rows being created in id order
RECURSIVE NewestFirst(_)
NewestFirst(ids) ==
  IF ids = {} THEN <<>>
  ELSE LET newest == CHOOSE x \in ids : \A y \in ids : y <= x
       IN <<newest>> \o NewestFirst(ids \ {newest})

Truncate(q, limit) == SubSeq(q, 1, IF Len(q) < limit THEN Len(q) ELSE limit)

\* variant: only the content is searched
searchObservationsContentOnly(obs, ents, query, limit) ==
  LET pattern == <<"%">> \o Chars(query) \o <<"%">>
      hits == {o \in obs : /\ o.entity_id \in EntityIds(ents)
                           /\ LikeMatch(pattern, TextChars(o.content))}
  IN Truncate(NewestFirst({o.id : o \in hits}), IF limit < 50 THEN limit ELSE 50)
\* searchObservations: content LIKE or entity name LIKE, newest first, LIMIT
searchObservations(obs, ents, query, limit) ==
  LET pattern == <<"%">> \o Chars(query) \o <<"%">>
      hits == {o \in obs : /\ o.entity_id \in EntityIds(ents)
                           /\ \/ LikeMatch(pattern, TextChars(o.content))
                              \/ LikeMatch(pattern, Chars(NameOfEntity(ents, o.entity_id)))}
  IN Truncate(NewestFirst({o.id : o \in hits}), IF limit < 50 THEN limit ELSE 50)

\* the sequences scored.sort(...).slice(0, limit) may be: every row once, in
\* descending similarity, rows of equal similarity in any order
SemanticResults(embs, obs, ents, query, limit) ==
  LET rows == SemanticRows(embs, obs, ents, generateEmbedding(<<query>>))
      n == Cardinality(rows)
  IN {Truncate(q, limit) :
        q \in {p \in [1..n -> rows] :
                 /\ \A i \in 1..n, j \in 1..n : i # j => p[i] # p[j]
                 /\ \A i \in 1..(n - 1) : p[i].similarity >= p[i + 1].similarity}}

\* Math.round(r.similarity * 1000) / 1000, in thousandths
RoundSimilarity(similarity) == (similarity + 500) \div 1000

\* variant: a hit at the threshold is dropped too
NotAboveThreshold(similarity) == similarity <= SIMILARITY_THRESHOLD
\* if (r.similarity < SIMILARITY_THRESHOLD) continue
BelowThreshold(similarity) == similarity < SIMILARITY_THRESHOLD

\* the first loop of recall, from index i on
RECURSIVE SemanticMemories(_, _, _)
SemanticMemories(semanticResults, i, memories) ==
  IF i > Len(semanticResults) THEN memories
  ELSE LET r == semanticResults[i]
       IN IF BelowThreshold(r.similarity)
             \/ r.observation_id \in {memories[k].observation_id : k \in 1..Len(memories)}
          THEN SemanticMemories(semanticResults, i + 1, memories)
          ELSE SemanticMemories(semanticResults, i + 1,
                 Append(memories, [observation_id |-> r.observation_id,
                                   similarity |-> <<RoundSimilarity(r.similarity)>>]))

\* variant: a keyword hit is given a similarity of zero
formatObservationScored(id) == [observation_id |-> id, similarity |-> <<0>>]
\* formatObservation: a keyword hit has no similarity
formatObservation(id) == [observation_id |-> id, similarity |-> <<>>]

\* the second loop of recall, from index i on
RECURSIVE KeywordMemories(_, _, _)
KeywordMemories(keywordResults, i, memories) ==
  IF i > Len(keywordResults) THEN memories
  ELSE IF keywordResults[i] \in {memories[k].observation_id : k \in 1..Len(memories)}
       THEN KeywordMemories(keywordResults, i + 1, memories)
       ELSE KeywordMemories(keywordResults, i + 1,
              Append(memories, formatObservation(keywordResults[i])))

RecallResult(memories) == [success |-> TRUE, count |-> Len(memories), memories |-> memories]

\* lines 35-51: semanticSearch suspends on the embedder, searchObservations
\* runs at once, then recall awaits both
RecallBegin(s, query, limit) ==
  /\ Idle(s)
  /\ calls' = CallsAfter(s,
       [op |-> "recall", input |-> RecallInput(query, limit), solo |-> TRUE, peer |-> NoId,
        pred |-> NoResult, snap |-> "none",
        keywordResults |-> searchObservations(observations, entities, query, limit)])
  /\ last' = NoLast
  /\ UNCHANGED <<entities, observations, embeddings, relationships, nextEntity, nextObs>>

\* lines 36-89: semanticSearch has returned its hits, or failed and was caught
RecallResume(s, embedded) ==
  LET c == calls[s]
      hits == IF embedded
              THEN SemanticResults(embeddings, observations, entities,
                                   c.input.query, c.input.limit)
              ELSE {<<>>}
  IN /\ c.op = "recall"
     /\ \E semanticResults \in hits :
          LET memories == KeywordMemories(c.keywordResults, 1,
                            SemanticMemories(semanticResults, 1, <<>>))
          IN last' = [Returned(s, "recall", c.input,
                               RecallResult(Truncate(memories, c.input.limit)), c)
                        EXCEPT !.snap = [keywordResults |-> c.keywordResults,
                                         embedded |-> embedded]]
     /\ calls' = CallsAfter(s, NoCall)
     /\ UNCHANGED <<entities, observations, embeddings, relationships, nextEntity, nextObs>>

RecallNames == {"karolina", "notes"}
RecallContents == {cOther, cNotes, cThird}
RecallQueries == {"dog", "notes", "see", "zzq"}
RecallLimits == {1, 2}

\* remember and recall, one call at a time
NextRecall ==
  /\ \/ \E content \in RecallContents, entityArg \in RecallNames :
           RememberBegin(1, content, entityArg, NULL, NULL)
     \/ RememberResume(1)
     \/ \E query \in RecallQueries, limit \in RecallLimits : RecallBegin(1, query, limit)
     \/ \E embedded \in BOOLEAN : RecallResume(1, embedded)
  /\ nextObs' <= MaxObsRecall + 1
  /\ nextEntity' <= MaxEnt + 1
  /\ UNCHANGED platform

SpecRecall == Init /\ [][NextRecall]_vars

(***************************************************************************)
(* consolidate: union-find clustering of the loaded embeddings.            *)
(***************************************************************************)
\* 0.8, in millionths
DEFAULT_THRESHOLD == 800000

\* getEmbeddingsByEntity(undefined): every embedding row with its observation
\* and entity rows
getAllEmbeddings(embs, obs, ents) ==
  LET rows == SelectSeq(embs, LAMBDA r : r.entity_id \in EntityIds(ents)
                                         /\ r.observation_id \in ObservationIds(obs))
  IN [i \in 1..Len(rows) |->
        LET o == ObservationById(obs, rows[i].observation_id)
        IN [observation_id |-> rows[i].observation_id, entity_id |-> rows[i].entity_id,
            content |-> o.content, source |-> o.source, vector |-> rows[i].vector]]

\* new UnionFind(n)
NewUnionFind(n) == [parent |-> [i \in 1..n |-> i], rank |-> [i \in 1..n |-> 0]]

\* find(x), with path compression: the root and the structure afterwards
RECURSIVE Find(_, _)
Find(uf, x) ==
  IF uf.parent[x] # x
  THEN LET up == Find(uf, uf.parent[x])
       IN [uf |-> [up.uf EXCEPT !.parent[x] = up.root], root |-> up.root]
  ELSE [uf |-> uf, root |-> x]

\* variant: the union is dropped when the ranks are equal
UnionUnlessEqualRank(uf, x, y) ==
  LET fx == Find(uf, x)
      fy == Find(fx.uf, y)
      rx == fx.root
      ry == fy.root
      u == fy.uf
  IN IF rx = ry THEN u
     ELSE IF u.rank[rx] < u.rank[ry] THEN [u EXCEPT !.parent[rx] = ry]
     ELSE IF u.rank[rx] > u.rank[ry] THEN [u EXCEPT !.parent[ry] = rx]
     ELSE u
\* union(x, y), by rank
Union(uf, x, y) ==
  LET fx == Find(uf, x)
      fy == Find(fx.uf, y)
      rx == fx.root
      ry == fy.root
      u == fy.uf
  IN IF rx = ry THEN u
     ELSE IF u.rank[rx] < u.rank[ry] THEN [u EXCEPT !.parent[rx] = ry]
     ELSE IF u.rank[rx] > u.rank[ry] THEN [u EXCEPT !.parent[ry] = rx]
     ELSE [u EXCEPT !.parent[ry] = rx, !.rank[rx] = u.rank[rx] + 1]

\* the nested loops over i < j, from the pair (i, j) on
RECURSIVE UnionPairs(_, _, _, _, _)
UnionPairs(vectors, threshold, uf, i, j) ==
  IF i > Len(vectors) THEN uf
  ELSE IF j > Len(vectors) THEN UnionPairs(vectors, threshold, uf, i + 1, i + 2)
  ELSE UnionPairs(vectors, threshold,
                  IF cosineSimilarity(vectors[i].vector, vectors[j].vector) >= threshold
                  THEN Union(uf, i, j) ELSE uf,
                  i, j + 1)

\* the grouping loop from index i on: groups in the order their roots are
\* first met, members in index order
RECURSIVE GroupByRoot(_, _, _, _)
GroupByRoot(uf, n, i, groups) ==
  IF i > n THEN groups
  ELSE LET f == Find(uf, i)
           at == {g \in 1..Len(groups) : groups[g].root = f.root}
       IN IF at = {}
          THEN GroupByRoot(f.uf, n, i + 1, Append(groups, [root |-> f.root, members |-> <<i>>]))
          ELSE LET g == CHOOSE x \in at : TRUE
               IN GroupByRoot(f.uf, n, i + 1,
                              [groups EXCEPT ![g].members = Append(@, i)])

\* the sum of the pairwise similarities of a cluster's members
RECURSIVE SimSum(_, _, _, _)
SimSum(vectors, members, i, j) ==
  IF i > Len(members) THEN 0
  ELSE IF j > Len(members) THEN SimSum(vectors, members, i + 1, i + 2)
  ELSE cosineSimilarity(vectors[members[i]].vector, vectors[members[j]].vector)
       + SimSum(vectors, members, i, j + 1)

\* one cluster: its observation ids and Math.round(avg * 1000) / 1000
ToCluster(vectors, members) ==
  LET n == Len(members)
      simCount == (n * (n - 1)) \div 2
  IN [observations |-> [k \in 1..n |-> vectors[members[k]].observation_id],
      avg_similarity |-> IF simCount > 0
                         THEN RoundSimilarity(SimSum(vectors, members, 1, 2) \div simCount)
                         ELSE 0]

\* clusters.sort((a, b) => b.observations.length - a.observations.length):
\* a stable insertion of each cluster behind those at least as large
RECURSIVE SortBySize(_, _)
SortBySize(clusters, sorted) ==
  IF clusters = <<>> THEN sorted
  ELSE LET c == Head(clusters)
           ahead == SelectSeq(sorted, LAMBDA d : Len(d.observations) >= Len(c.observations))
           behind == SelectSeq(sorted, LAMBDA d : Len(d.observations) < Len(c.observations))
       IN SortBySize(Tail(clusters), ahead \o <<c>> \o behind)

ConsolidateInput(entityArg, threshold) == [entity |-> entityArg, threshold |-> threshold]

ConsolidateResult(success, total, clusters) ==
  [success |-> success, total_observations |-> total, clusters |-> clusters]

\* lines 86-159: the clusters of a list of loaded embeddings
ClustersOf(vectors, threshold) ==
  LET n == Len(vectors)
      uf == UnionPairs(vectors, threshold, NewUnionFind(n), 1, 2)
      groups == GroupByRoot(uf, n, 1, <<>>)
      large == SelectSeq(groups, LAMBDA g : Len(g.members) >= 2)
  IN SortBySize([k \in 1..Len(large) |-> ToCluster(vectors, large[k].members)], <<>>)

\* consolidate; the optional threshold is <<>> when left out and <<t>> when given
Consolidate(entityArg, threshold) ==
  LET input == ConsolidateInput(entityArg, threshold)
      limit == IF threshold = <<>> THEN DEFAULT_THRESHOLD ELSE threshold[1]
      found == IF entityArg = NULL THEN {} ELSE findEntityByName(entities, entityArg)
      vectors == IF entityArg = NULL
                 THEN getAllEmbeddings(embeddings, observations, entities)
                 ELSE getEmbeddingsByEntity(embeddings, observations, entities,
                                            EntityNamed(entities, entityArg).id)
  IN /\ last' = Returned(0, "consolidate", input,
                  IF entityArg # NULL /\ found = {}
                  THEN ConsolidateResult(FALSE, 0, <<>>)
                  ELSE IF Len(vectors) < 2
                       THEN ConsolidateResult(TRUE, Len(vectors), <<>>)
                       ELSE ConsolidateResult(TRUE, Len(vectors), ClustersOf(vectors, limit)),
                  Sync)
     /\ calls' = CallsAfter(0, NoCall)
     /\ UNCHANGED <<entities, observations, embeddings, relationships, nextEntity, nextObs>>

ClusterContents == {cOther, cThird, cShort}
ClusterThresholds == {<<>>, <<600000>>}

\* remember and consolidate, one call at a time
NextCluster ==
  /\ \/ \E content \in ClusterContents : RememberBegin(1, content, "kar", NULL, NULL)
     \/ \E content \in {cOther, cShort} : RememberBegin(1, content, NULL, NULL, NULL)
     \/ RememberResume(1)
     \/ \E entityArg \in {NULL, "kar"}, threshold \in ClusterThresholds :
           Consolidate(entityArg, threshold)
  /\ Within(MaxObsCluster)
  /\ UNCHANGED platform

SpecCluster == Init /\ [][NextCluster]_vars

GoneNames == {"hippo", "hippocampus"}

\* remember, forget of an entity and context for it, one call at a time
NextGone ==
  /\ \/ \E content \in ContextContents, entityArg \in GoneNames :
           RememberBegin(1, content, entityArg, NULL, NULL)
     \/ RememberResume(1)
     \/ \E entityArg \in GoneNames : Forget(entityArg, NoId)
     \/ \E topic \in GoneNames : ContextBegin(1, topic, <<>>)
     \/ \E embedded \in BOOLEAN : ContextResume(1, embedded)
  /\ nextObs' <= MaxObsGone + 1
  /\ nextEntity' <= MaxEntContext + 1
  /\ UNCHANGED platform

SpecGone == Init /\ [][NextGone]_vars

\* overlapping remember calls whose contents name the other entities
NextLinks ==
  /\ \/ \E s \in FreeSlots, content \in {cCreator, cNotes}, entityArg \in ContextNames :
           RememberBegin(s, content, entityArg, NULL, NULL)
     \/ \E s \in SlotIds : RememberResume(s)
  /\ nextObs' <= MaxObsLinks + 1
  /\ nextEntity' <= MaxEntNotes + 1
  /\ UNCHANGED platform

SpecLinks == Init /\ [][NextLinks]_vars

\* names that differ only in case
CaseNames == {"kar", "Kar"}

\* overlapping remember calls and forget on names that differ only in case
NextEntity ==
  /\ \/ \E s \in FreeSlots, entityArg \in CaseNames :
           RememberBegin(s, cOther, entityArg, NULL, NULL)
     \/ \E s \in SlotIds : RememberResume(s)
     \/ \E entityArg \in CaseNames : Forget(entityArg, NoId)
  /\ Within(MaxObsEntity)
  /\ UNCHANGED platform

SpecEntity == Init /\ [][NextEntity]_vars

(***************************************************************************)
(* Startup: initDatabase opens the stored file and initializeSchema        *)
(* migrates it; backfillEmbeddings then embeds, one await at a time, the   *)
(* observations that have no embedding row, while requests are served.     *)
(***************************************************************************)
\* observations in the stored file
MaxObsStartup == 2
\* observation ids handed out during a startup behaviour
MaxObsBackfill == 4
\* the largest version found in a stored schema_version row
MaxVersion == 3

\* schema_version of the stored file; 0: the table has no row
StoredVersions == 0..MaxVersion
StartupContents == <<cOther, cThird, cShort, cOther, cThird>>

\* the version initializeSchema leaves in schema_version
initializeSchema(version) ==
  IF version = 0 THEN SCHEMA_VERSION
  ELSE IF version < 2 THEN SCHEMA_VERSION
  ELSE version

StoredObservations == {NewObservation(i, 1, StartupContents[i], NULL) : i \in 1..MaxObsStartup}

StoredEmbeddings(have) ==
  SelectSeq([i \in 1..MaxObsStartup |->
               [entity_id |-> 1, observation_id |-> i,
                vector |-> generateEmbedding(StartupContents[i]),
                text_content |-> StartupContents[i]]],
            LAMBDA r : r.observation_id \in have)

\* The stored file before the server starts.  A version 1 file has no
\* embeddings table, a file without a version row is new.
InitStartup ==
  /\ \E version \in StoredVersions :
       /\ db = [status |-> "file", version |-> version, handle |-> "none"]
       /\ IF version = 0
          THEN entities = {} /\ observations = {} /\ embeddings = <<>>
          ELSE /\ entities = {NewEntity(1, "kar", NULL)}
               /\ observations = StoredObservations
               /\ \E have \in SUBSET (1..MaxObsStartup) :
                    embeddings = IF version < 2 THEN <<>> ELSE StoredEmbeddings(have)
       /\ nextEntity = IF version = 0 THEN 1 ELSE 2
       /\ nextObs = IF version = 0 THEN 1 ELSE MaxObsStartup + 1
  /\ relationships = EmptyBag
  /\ calls = [s \in SlotIds |-> NoCall]
  /\ last = NoLast
  /\ backfill = NoBackfill
  /\ NoSessions

\* initDatabase: the module's handle, if there is one, is returned as it is;
\* otherwise the file is opened and the handle assigned, then a wrong
\* passphrase fails the integrity check and the call throws, otherwise the
\* schema is initialized and the database is open.  db.handle is the
\* module variable `db`: "none" is null.
initDatabase(keyOk) ==
  /\ IF db.handle # "none"
     THEN /\ last' = Returned(0, "initDatabase", [keyOk |-> keyOk],
                              [handle |-> db.handle], Sync)
          /\ UNCHANGED db
     ELSE IF keyOk
     THEN /\ db' = [status |-> "open", version |-> initializeSchema(db.version),
                    handle |-> "verified"]
          /\ last' = Returned(0, "initDatabase", [keyOk |-> keyOk],
                              [handle |-> "verified"], Sync)
     ELSE /\ db' = [status |-> "failed", version |-> db.version,
                    handle |-> "unverified"]
          /\ last' = Raised(0, "initDatabase", [keyOk |-> keyOk],
                            "Failed to open encrypted database", Sync)
  /\ UNCHANGED <<entities, observations, embeddings, relationships, nextEntity,
                 nextObs, calls, backfill>>
  /\ UNCHANGED http

\* index.ts line 15: the server opens the stored file once, at startup
InitDatabase(keyOk) ==
  /\ db.status = "file"
  /\ initDatabase(keyOk)

\* getDatabase: the module's handle, or an exception when there is none
getDatabase ==
  /\ last' = IF db.handle = "none"
             THEN Raised(0, "getDatabase", [keyOk |-> NULL],
                         "Database not initialized", Sync)
             ELSE Returned(0, "getDatabase", [keyOk |-> NULL],
                           [handle |-> db.handle], Sync)
  /\ UNCHANGED <<entities, observations, embeddings, relationships, nextEntity,
                 nextObs, calls, db, backfill>>
  /\ UNCHANGED http

\* closeDatabase: a handle, if there is one, is closed and forgotten
closeDatabase ==
  /\ db' = IF db.handle # "none"
           THEN [status |-> "file", version |-> db.version, handle |-> "none"]
           ELSE db
  /\ last' = Returned(0, "closeDatabase", [keyOk |-> NULL], [handle |-> "none"], Sync)
  /\ UNCHANGED <<entities, observations, embeddings, relationships, nextEntity,
                 nextObs, calls, backfill>>
  /\ UNCHANGED http

\* variant: the query lacks WHERE emb.id IS NULL
ObservationsJoined(obs, embs) == obs

\* observations LEFT JOIN embeddings WHERE emb.id IS NULL
MissingEmbeddings(obs, embs) ==
  {o \in obs : \A i \in DOMAIN embs : embs[i].observation_id # o.id}

\* the orders in which the rows of a query without ORDER BY can come
Orders(rows) ==
  {seq \in [1..Cardinality(rows) -> rows] :
     \A i, j \in 1..Cardinality(rows) : i # j => seq[i] # seq[j]}

\* backfillEmbeddings up to the first await
BackfillBegin ==
  /\ db.status = "open"
  /\ backfill.status = "idle"
  /\ LET missing == MissingEmbeddings(observations, embeddings)
     IN IF missing = {}
        THEN backfill' = [backfill EXCEPT !.status = "done"]
        ELSE \E rows \in Orders(missing) :
               backfill' = [backfill EXCEPT !.status = "awaiting", !.missing = rows]
  /\ last' = NoLast
  /\ UNCHANGED <<entities, observations, embeddings, relationships, nextEntity,
                 nextObs, calls, db>>
  /\ UNCHANGED http

\* an iteration throws: the promise rejects and index.ts logs the failure
BackfillAfterFailure(bf, cause) ==
  [bf EXCEPT !.status = "rejected",
             !.failed = @ \cup {bf.missing[bf.count + 1].id},
             !.cause = cause, !.logged = TRUE]

\* one iteration of the loop after its await: storeEmbedding, count++
BackfillResume(embedded) ==
  LET obs == backfill.missing[backfill.count + 1]
  IN /\ backfill.status = "awaiting"
     /\ IF ~embedded
        THEN /\ backfill' = BackfillAfterFailure(backfill, "embedder")
             /\ UNCHANGED embeddings
        ELSE IF ~CanStoreEmbedding(entities, observations, obs.entity_id, obs.id)
        THEN /\ backfill' = BackfillAfterFailure(backfill, "constraint")
             /\ UNCHANGED embeddings
        ELSE /\ embeddings' = storeEmbedding(embeddings, obs.entity_id, obs.id,
                                             generateEmbedding(obs.content), obs.content)
             /\ backfill' = [backfill EXCEPT
                  !.count = @ + 1,
                  !.status = IF backfill.count + 1 = Len(backfill.missing)
                             THEN "done" ELSE "awaiting"]
     /\ last' = NoLast
     /\ UNCHANGED <<entities, observations, relationships, nextEntity, nextObs,
                    calls, db>>
     /\ UNCHANGED http

\* requests are served once the synchronous part of startup has run
Started == db.status = "open" /\ backfill.status # "idle"

StartupRequest ==
  /\ Started
  /\ \/ \E observationId \in KnownIds(MaxObsStartup) : Forget(NULL, observationId)
     \/ Forget("kar", NoId)
     \/ UpdateBegin(1, "kar", cOther, cShort)
     \/ UpdateResume(1)
     \/ MergeBegin(1, <<1, 2>>, cLong)
     \/ MergeResume(1)
  /\ Within(MaxObsBackfill)
  /\ UNCHANGED platform

NextStartup ==
  \/ \E keyOk \in BOOLEAN : InitDatabase(keyOk)
  \/ BackfillBegin
  \/ \E embedded \in BOOLEAN : BackfillResume(embedded)
  \/ StartupRequest

SpecStartup == InitStartup /\ [][NextStartup]_vars

\* the event loop runs every continuation that is ready
SpecBackfill ==
  /\ InitStartup
  /\ [][NextStartup]_vars
  /\ WF_vars(\E keyOk \in BOOLEAN : InitDatabase(keyOk))
  /\ WF_vars(BackfillBegin)
  /\ WF_vars(\E embedded \in BOOLEAN : BackfillResume(embedded))

(***************************************************************************)
(* OAuth 2.1 (auth/oauth.ts) and the /mcp middleware chain of index.ts:    *)
(* the rate limiter, bearerAuth, then the MCP handler.  Times are in       *)
(* seconds; a UUID is the number of the randomUUID() call that made it.    *)
(***************************************************************************)
ACCESS_TOKEN_TTL == 3600
REFRESH_TOKEN_TTL == 2592000
AUTH_CODE_TTL == 300
WINDOW_MS == 60

\* UUIDs randomUUID hands out in one behaviour
MaxUuid == 5

config ==
  [oauthIssuer |-> "https://hippo", token |-> NULL,
   rateLimitRemember |-> 20, rateLimitRecall |-> 60]

\* createHash('sha256'): distinct verifiers have distinct digests
sha256(input) ==
  CASE input = "v1" -> "h1"
    [] input = "v2" -> "h2"
    [] OTHER -> "h0"

Uuids == 1..MaxUuid

\* POST /authorize: with the owner's credentials a code is stored for
\* whatever client_id, redirect_uri and code_challenge the form carries
Authorize(clientId, redirectUri, codeChallenge, credentialsOk) ==
  LET input == [client_id |-> clientId, redirect_uri |-> redirectUri,
                code_challenge |-> codeChallenge]
  IN /\ IF ~credentialsOk
        THEN /\ last' = Returned(0, "authorize", input, [code |-> 401], Sync)
             /\ UNCHANGED <<authCodes, nextToken>>
        ELSE /\ authCodes' = authCodes \cup
                  {[code |-> nextToken, client_id |-> clientId,
                    code_challenge |-> codeChallenge, redirect_uri |-> redirectUri,
                    expires_at |-> now + AUTH_CODE_TTL]}
             /\ nextToken' = nextToken + 1
             /\ last' = Returned(0, "authorize", input,
                                 [code |-> 302, auth_code |-> nextToken], Sync)
     /\ calls' = CallsAfter(0, NoCall)
     /\ UNCHANGED <<accessTokens, refreshTokens, issued, windows, now, clients, passed>>

TokenInput(grantType, code, codeVerifier, redirectUri, refreshToken) ==
  [grant_type |-> grantType, code |-> code, code_verifier |-> codeVerifier,
   redirect_uri |-> redirectUri, refresh_token |-> refreshToken]

\* POST /token up to `await c.req.parseBody()`
TokenBegin(s, input) ==
  /\ Idle(s)
  /\ calls' = CallsAfter(s, [op |-> "token", input |-> input, solo |-> TRUE,
                             pred |-> NoResult, peer |-> NoId, snap |-> "none"])
  /\ last' = NoLast
  /\ UNCHANGED http

TokenError(s, input, error) ==
  /\ last' = Returned(s, "token", input, [code |-> 400, error |-> error], calls[s])
  /\ UNCHANGED <<accessTokens, refreshTokens, nextToken, issued>>

\* the token response, and the maps after accessTokens.set / refreshTokens.set
IssueTokens(s, input, clientId, live, presented, revoked) ==
  /\ accessTokens' = live \cup
       {[token |-> nextToken, client_id |-> clientId,
         expires_at |-> now + ACCESS_TOKEN_TTL]}
  /\ refreshTokens' = {r \in refreshTokens : r.token # input.refresh_token \/ revoked = NoId}
       \cup {[token |-> nextToken + 1, client_id |-> clientId,
              access_token |-> nextToken, expires_at |-> now + REFRESH_TOKEN_TTL]}
  /\ nextToken' = nextToken + 2
  /\ issued' = issued \cup
       {[grant_type |-> input.grant_type, presented |-> presented, revoked |-> revoked,
         code_verifier |-> input.code_verifier, redirect_uri |-> input.redirect_uri,
         access_token |-> nextToken, refresh_token |-> nextToken + 1, at |-> now]}
  /\ last' = Returned(s, "token", input,
                      [code |-> 200, access_token |-> nextToken,
                       refresh_token |-> nextToken + 1], calls[s])

\* variant: the code stays in the map
KeepCode(codes, code) == codes

\* authCodes.delete(code)
DeleteCode(codes, code) == {a \in codes : a.code # code}

\* grant_type authorization_code
TokenByCode(s, input) ==
  LET found == {a \in authCodes : a.code = input.code}
      authCode == CHOOSE a \in found : TRUE
  IN IF found = {}
     THEN TokenError(s, input, "invalid_grant") /\ UNCHANGED authCodes
     ELSE IF sha256(input.code_verifier) # authCode.code_challenge
     THEN TokenError(s, input, "invalid_grant") /\ UNCHANGED authCodes
     ELSE IF authCode.redirect_uri # input.redirect_uri
     THEN TokenError(s, input, "invalid_grant") /\ UNCHANGED authCodes
     ELSE IF now > authCode.expires_at
     THEN TokenError(s, input, "invalid_grant") /\ authCodes' = DeleteCode(authCodes, input.code)
     ELSE /\ authCodes' = DeleteCode(authCodes, input.code)
          /\ IssueTokens(s, input, authCode.client_id, accessTokens, input.code, NoId)

\* variant: the access token of the rotated refresh token stays valid
KeepAccess(tokens, token) == tokens

\* accessTokens.delete(stored.access_token)
DeleteAccess(tokens, token) == {a \in tokens : a.token # token}

\* grant_type refresh_token
TokenByRefresh(s, input) ==
  LET found == {r \in refreshTokens : r.token = input.refresh_token}
      stored == CHOOSE r \in found : TRUE
  IN /\ UNCHANGED authCodes
     /\ IF found = {}
        THEN TokenError(s, input, "invalid_grant")
        ELSE IF now > stored.expires_at
        THEN /\ last' = Returned(s, "token", input,
                                 [code |-> 400, error |-> "invalid_grant"], calls[s])
             /\ refreshTokens' = refreshTokens \ found
             /\ UNCHANGED <<accessTokens, nextToken, issued>>
        ELSE IssueTokens(s, input, stored.client_id,
                         DeleteAccess(accessTokens, stored.access_token),
                         input.refresh_token, stored.access_token)

\* POST /token after the await
TokenResume(s) ==
  LET input == calls[s].input
  IN /\ calls[s].op = "token"
     /\ IF input.grant_type = "authorization_code" THEN TokenByCode(s, input)
        ELSE IF input.grant_type = "refresh_token" THEN TokenByRefresh(s, input)
        ELSE TokenError(s, input, "unsupported_grant_type") /\ UNCHANGED authCodes
     /\ calls' = CallsAfter(s, NoCall)
     /\ UNCHANGED <<windows, now, clients, passed>>

\* variant: the request that opens a window is not counted
CountedAfterFirst(key) ==
  LET found == {w \in windows : w.key = key}
      entry == CHOOSE w \in found : TRUE
  IN IF found = {} \/ now > entry.resetAt
     THEN [key |-> key, count |-> 0, resetAt |-> now + WINDOW_MS]
     ELSE [entry EXCEPT !.count = @ + 1]

\* the limiter's entry for a key after this request: a missing or lapsed
\* entry starts a new window, then entry.count++
Counted(key) ==
  LET found == {w \in windows : w.key = key}
      entry == CHOOSE w \in found : TRUE
  IN IF found = {} \/ now > entry.resetAt
     THEN [key |-> key, count |-> 1, resetAt |-> now + WINDOW_MS]
     ELSE [entry EXCEPT !.count = @ + 1]

\* variant: an access token never lapses
NeverExpired(stored) == FALSE

\* history: one more request of this key handed to next() at this instant
PassedAfter(key) ==
  LET found == {p \in passed : p.key = key /\ p.at = now}
      n == IF found = {} THEN 0 ELSE (CHOOSE p \in found : TRUE).count
  IN (passed \ found) \cup {[key |-> key, at |-> now, count |-> n + 1]}

\* Date.now() > stored.expires_at
Expired(stored) == now > stored.expires_at

\* bearerAuth: "next" when the request goes on to the handler, else 401
bearerAuth(auth) ==
  LET found == {a \in accessTokens : a.token = auth}
      stored == CHOOSE a \in found : TRUE
  IN IF config.oauthIssuer = NULL
     THEN IF config.token # NULL /\ auth # config.token THEN 401 ELSE 200
     ELSE IF auth = NoId THEN 401
     ELSE IF found = {} THEN 401
     ELSE IF Expired(stored) THEN 401
     ELSE 200

\* a request to /mcp: createRateLimiter(config.rateLimitRecall), bearerAuth,
\* then the MCP handler, which starts the tool the request calls
McpRequest(ip, tool, auth) ==
  LET input == [ip |-> ip, tool |-> tool, auth |-> auth]
      entry == Counted(ip)
      limited == entry.count > config.rateLimitRecall
      answer == bearerAuth(auth)
      Answer(code) ==
        /\ last' = Returned(0, "mcp", input, [code |-> code], Sync)
        /\ calls' = CallsAfter(0, NoCall)
        /\ UNCHANGED <<entities, observations, embeddings, relationships,
                       nextEntity, nextObs>>
  IN /\ windows' = {w \in windows : w.key # ip} \cup {entry}
     /\ accessTokens' =
          IF ~limited /\ config.oauthIssuer # NULL
             /\ \E a \in accessTokens : a.token = auth /\ Expired(a)
          THEN DeleteAccess(accessTokens, auth)
          ELSE accessTokens
     /\ IF limited THEN Answer(429)
        ELSE IF answer = 401 THEN Answer(401)
        ELSE IF tool = "remember" THEN RememberBegin(1, cOther, "kar", NULL, NULL)
        ELSE Answer(200)
     /\ passed' = IF limited THEN passed ELSE PassedAfter(ip)
     /\ UNCHANGED <<db, backfill, authCodes, refreshTokens, nextToken, issued, now,
                    clients>>

\* oauth.ts setInterval: expired codes and tokens are dropped
CleanupTokens ==
  /\ authCodes' = {a \in authCodes : ~(now > a.expires_at)}
  /\ accessTokens' = {a \in accessTokens : ~(now > a.expires_at)}
  /\ refreshTokens' = {r \in refreshTokens : ~(now > r.expires_at)}
  /\ last' = NoLast
  /\ UNCHANGED <<calls, nextToken, issued, windows, now, clients, passed>>

\* rate-limit.ts setInterval: lapsed windows are dropped
CleanupWindows ==
  /\ windows' = {w \in windows : ~(now > w.resetAt)}
  /\ last' = NoLast
  /\ UNCHANGED <<calls, authCodes, accessTokens, refreshTokens, nextToken, issued, now,
                 clients, passed>>

\* Date.now() moves on
Tick(t) ==
  /\ t > now
  /\ now' = t
  /\ passed' = {p \in passed : p.at + WINDOW_MS >= t}
  /\ last' = NoLast
  /\ UNCHANGED <<calls, authCodes, accessTokens, refreshTokens, nextToken, issued, windows,
                 clients>>

\* the instant just past the expiry of a code made at 0
AuthInstants == {AUTH_CODE_TTL + 1}

\* the codes, access tokens and refresh tokens handed to clients so far
CodesMade == {a.code : a \in authCodes} \cup
             {g.presented : g \in {h \in issued : h.grant_type = "authorization_code"}}
AccessMade == {g.access_token : g \in issued}
RefreshMade == {g.refresh_token : g \in issued}

\* the token requests clients send: with the right and a wrong verifier, a
\* wrong redirect_uri, a refresh token, and an unsupported grant type
TokenInputs ==
  {TokenInput("authorization_code", code, v, "cb1", NoId) :
     code \in CodesMade, v \in {"v1", "v2"}}
  \cup {TokenInput("authorization_code", code, "v1", "cb2", NoId) : code \in CodesMade}
  \cup {TokenInput("refresh_token", NoId, NULL, NULL, r) : r \in RefreshMade}
  \cup {TokenInput("password", NoId, NULL, NULL, NoId)}

\* requests a behaviour of the OAuth specification sends to /mcp in one window
MaxRequestsAuth == 1

NextAuth ==
  /\ \/ /\ \/ \E credentialsOk \in BOOLEAN : Authorize("c1", "cb1", "h1", credentialsOk)
           \/ \E s \in FreeSlots, input \in TokenInputs : TokenBegin(s, input)
           \/ \E s \in SlotIds : TokenResume(s)
           \/ CleanupTokens
           \/ \E t \in AuthInstants : Tick(t)
        /\ UNCHANGED <<store, nextEntity, nextObs, db, backfill>>
     \/ /\ \E auth \in AccessMade \cup {NoId} : McpRequest("10.0.0.1", "tools/list", auth)
        /\ \A w \in windows' : w.count <= MaxRequestsAuth
  /\ nextToken' <= MaxUuid + 1

SpecAuth == Init /\ [][NextAuth]_vars

\* UUIDs handed out in a behaviour of remember requests: a code and two tokens
MaxUuidWrites == 3
\* requests counted in one window of the limiter
MaxRequests == 61
\* observations remember stores in a behaviour of the limiter specification
MaxObsLimiter == 1

\* the instant just past the expiry of an access token made at 0
LimiterInstants == {ACCESS_TOKEN_TTL + 1}

\* a client that holds the verifier: it redeems its code and refreshes
LimiterTokenInputs ==
  {TokenInput("authorization_code", code, "v1", "cb1", NoId) : code \in CodesMade}
  \cup {TokenInput("refresh_token", NoId, NULL, NULL, r) : r \in RefreshMade}

\* one client address sending requests to /mcp, with and without the access
\* tokens it was given
NextLimiter ==
  /\ \/ /\ \/ Authorize("c1", "cb1", "h1", TRUE)
           \/ \E input \in LimiterTokenInputs : TokenBegin(2, input)
           \/ TokenResume(2)
           \/ \E t \in LimiterInstants : Tick(t)
        /\ UNCHANGED <<store, nextEntity, nextObs, db, backfill>>
     \/ /\ \E auth \in AccessMade \cup {NoId} : McpRequest("10.0.0.1", "tools/list", auth)
        /\ \A w \in windows' : w.count <= MaxRequests
  /\ nextToken' <= MaxUuid + 1

SpecLimiter == Init /\ [][NextLimiter]_vars

\* one client address that redeems a code and sends remember requests
NextWrites ==
  /\ \/ /\ \/ Authorize("c1", "cb1", "h1", TRUE)
           \/ \E code \in CodesMade :
                TokenBegin(2, TokenInput("authorization_code", code, "v1", "cb1", NoId))
           \/ TokenResume(2)
           \/ CleanupWindows
           \/ Tick(WINDOW_MS + 1)
        /\ UNCHANGED <<store, nextEntity, nextObs, db, backfill>>
     \/ /\ \E auth \in AccessMade : McpRequest("10.0.0.1", "remember", auth)
        /\ \A w \in windows' : w.count <= MaxRequests
     \/ RememberResume(1) /\ UNCHANGED platform
  /\ nextToken' <= MaxUuidWrites + 1
  /\ nextObs' <= MaxObsLimiter + 1

SpecWrites == Init /\ [][NextWrites]_vars

\* observations and entities in a behaviour of the detection specification
MaxObsDetect == 4
MaxEntDetect == 4

\* a content naming an entity, the default entity and an entity with a short name
cAll == <<"karolina", "general", "ab", "notes">>
DetectNames == {"karolina", "notes", "ab", NULL}

NextDetect ==
  /\ \/ \E content \in {cAll, cOther}, entityArg \in DetectNames :
           RememberBegin(1, content, entityArg, NULL, NULL)
     \/ RememberResume(1)
  /\ nextObs' <= MaxObsDetect + 1
  /\ nextEntity' <= MaxEntDetect + 1
  /\ UNCHANGED platform

SpecDetect == Init /\ [][NextDetect]_vars

(***************************************************************************)
(* The limiter alone over several windows: two client addresses with one   *)
(* token, and the instants at the end of a window and just past it.       *)
(***************************************************************************)
MaxRequestsSecond == 1

WindowClients == {"10.0.0.1", "10.0.0.2"}
WindowInstants == {WINDOW_MS, WINDOW_MS + 1}

NextWindow ==
  /\ \/ /\ \/ Authorize("c1", "cb1", "h1", TRUE)
           \/ \E code \in CodesMade :
                TokenBegin(2, TokenInput("authorization_code", code, "v1", "cb1", NoId))
           \/ TokenResume(2)
           \/ CleanupWindows
           \/ \E t \in WindowInstants : Tick(t)
        /\ UNCHANGED <<store, nextEntity, nextObs, db, backfill>>
     \/ /\ \E ip \in WindowClients, auth \in AccessMade :
             McpRequest(ip, "tools/list", auth)
        /\ \A w \in windows' :
             w.count <= IF w.key = "10.0.0.1" THEN MaxRequests ELSE MaxRequestsSecond
  /\ nextToken' <= MaxUuidWrites + 1

SpecWindow == Init /\ [][NextWindow]_vars

(***************************************************************************)
(* Overlapping update calls: remember and update only, several of them     *)
(* suspended on the embedder at once.                                       *)
(***************************************************************************)
MaxObsOverlap == 4

NextOverlap ==
  /\ \/ \E s \in FreeSlots : RememberBegin(s, cShort, "kar", NULL, NULL)
     \/ \E s \in SlotIds : RememberResume(s)
     \/ \E s \in FreeSlots, newContent \in {cOther, cLong} :
           UpdateBegin(s, "kar", cShort, newContent)
     \/ \E s \in SlotIds : UpdateResume(s)
  /\ Within(MaxObsOverlap)
  /\ UNCHANGED platform

SpecOverlap == Init /\ [][NextOverlap]_vars

(***************************************************************************)
(* The embedder fails: `await generateEmbedding(...)` rejects (the model   *)
(* cannot be loaded, or the extractor throws), and the rejection leaves    *)
(* the suspended tool as its exception.                                    *)
(***************************************************************************)
MaxObsFail == 3

\* the awaited promise of a suspended remember, update or merge rejects:
\* nothing after the await runs
EmbedderFails(s) ==
  LET c == calls[s]
  IN /\ c.op \in {"remember", "update", "merge"}
     /\ calls' = CallsAfter(s, NoCall)
     /\ last' = Raised(s, c.op, c.input, "embedder", c)
     /\ UNCHANGED <<entities, observations, embeddings, relationships,
                    nextEntity, nextObs>>

\* one call at a time, each of which may fail at the embedder
NextFail ==
  /\ \/ \E content \in {cShort, cOther} : RememberBegin(1, content, "kar", NULL, NULL)
     \/ RememberResume(1)
     \/ UpdateBegin(1, "kar", cShort, cOther)
     \/ UpdateResume(1)
     \/ \E ids \in IncreasingPairs(MaxObsFail) : MergeBegin(1, ids, cLong)
     \/ MergeResume(1)
     \/ EmbedderFails(1)
  /\ Within(MaxObsFail)
  /\ UNCHANGED platform

SpecFail == Init /\ [][NextFail]_vars

(***************************************************************************)
(* Startup backfill beside the writing tools: while the backfill loop is   *)
(* suspended on the embedder, remember, update and merge calls run.        *)
(***************************************************************************)
MaxObsRepair == 4

RepairRequest ==
  /\ Started
  /\ \/ \E s \in FreeSlots, content \in {cShort, cThird} :
          RememberBegin(s, content, "kar", NULL, NULL)
     \/ \E s \in SlotIds : RememberResume(s)
     \/ \E s \in FreeSlots, oldContent \in {cOther, cThird} :
          UpdateBegin(s, "kar", oldContent, cShort)
     \/ \E s \in SlotIds : UpdateResume(s)
     \/ \E s \in FreeSlots : MergeBegin(s, <<1, 2>>, cLong)
     \/ \E s \in SlotIds : MergeResume(s)
  /\ Within(MaxObsRepair)
  /\ UNCHANGED platform

NextRepair ==
  \/ InitDatabase(TRUE)
  \/ BackfillBegin
  \/ \E embedded \in BOOLEAN : BackfillResume(embedded)
  \/ RepairRequest

SpecRepair == InitStartup /\ [][NextRepair]_vars

(***************************************************************************)
(* forget of an entity while calls on it are suspended: remember, update   *)
(* and merge on entities whose observations name each other, and forget    *)
(* by entity name.                                                         *)
(***************************************************************************)
MaxObsOrphan == 3
MaxEntOrphan == 3

OrphanNames == {"karolina", "notes"}

NextOrphan ==
  /\ \/ \E s \in FreeSlots : RememberBegin(s, cNotes, "karolina", NULL, NULL)
     \/ \E s \in FreeSlots : RememberBegin(s, cCreator, "notes", NULL, NULL)
     \/ \E s \in SlotIds : RememberResume(s)
     \/ \E s \in FreeSlots : UpdateBegin(s, "karolina", cNotes, cCreator)
     \/ \E s \in SlotIds : UpdateResume(s)
     \/ \E s \in FreeSlots : MergeBegin(s, <<1, 2>>, cNotes)
     \/ \E s \in SlotIds : MergeResume(s)
     \/ \E entityArg \in OrphanNames : Forget(entityArg, NoId)
  /\ nextObs' <= MaxObsOrphan + 1
  /\ nextEntity' <= MaxEntOrphan + 1
  /\ UNCHANGED platform

SpecOrphan == Init /\ [][NextOrphan]_vars

(***************************************************************************)
(* The database module on its own: initDatabase, getDatabase and           *)
(* closeDatabase called in any order on a stored file.                     *)
(***************************************************************************)
NextHandle ==
  \/ \E keyOk \in BOOLEAN : initDatabase(keyOk)
  \/ getDatabase
  \/ closeDatabase

SpecHandle == InitStartup /\ [][NextHandle]_vars

(***************************************************************************)
(* Client registration and the two /authorize routes.  A client_id is the  *)
(* number of the randomUUID() call that made it.                           *)
(***************************************************************************)
MaxUuidRegister == 3

RedirectUris == {"cb1", "cb2"}

\* POST /register: a client with a fresh id and the redirect_uris of the body
Register(redirectUris) ==
  LET input == [redirect_uris |-> redirectUris]
  IN /\ IF redirectUris = {}
        THEN /\ last' = Returned(0, "register", input, [code |-> 400], Sync)
             /\ UNCHANGED <<clients, nextToken>>
        ELSE /\ clients' = clients \cup
                  {[client_id |-> nextToken, redirect_uris |-> redirectUris]}
             /\ nextToken' = nextToken + 1
             /\ last' = Returned(0, "register", input,
                                 [code |-> 201, client_id |-> nextToken], Sync)
     /\ calls' = CallsAfter(0, NoCall)
     /\ UNCHANGED <<authCodes, accessTokens, refreshTokens, issued, windows, now, passed>>

\* GET /authorize: the login form, for a registered client and one of its
\* redirect_uris only
AuthorizeForm(clientId, redirectUri, codeChallenge, codeChallengeMethod) ==
  LET input == [client_id |-> clientId, redirect_uri |-> redirectUri,
                code_challenge |-> codeChallenge]
      found == {c \in clients : c.client_id = clientId}
      client == CHOOSE c \in found : TRUE
      code == IF found = {} THEN 400
              ELSE IF codeChallengeMethod # "S256" THEN 400
              ELSE IF redirectUri \notin client.redirect_uris THEN 400
              ELSE 200
  IN /\ last' = Returned(0, "authorize_form", input, [code |-> code], Sync)
     /\ calls' = CallsAfter(0, NoCall)
     /\ UNCHANGED http

NextRegister ==
  /\ \/ \E redirectUris \in SUBSET RedirectUris : Register(redirectUris)
     \/ \E clientId \in 1..MaxUuidRegister, redirectUri \in RedirectUris,
           method \in {"S256", "plain"} :
          AuthorizeForm(clientId, redirectUri, "h1", method)
     \/ \E clientId \in 1..MaxUuidRegister, redirectUri \in RedirectUris,
           credentialsOk \in BOOLEAN :
          Authorize(clientId, redirectUri, "h1", credentialsOk)
  /\ nextToken' <= MaxUuidRegister + 1
  /\ UNCHANGED <<store, nextEntity, nextObs, db, backfill>>

SpecRegister == Init /\ [][NextRegister]_vars

(***************************************************************************)
(* Properties.                                                             *)
(***************************************************************************)
AllIdle == \A s \in SlotIds : Idle(s)
EmbeddingRowsOf(embs, observationId) ==
  {i \in 1..Len(embs) : embs[i].observation_id = observationId}
ObservationsOf(obs, entityId) == {o \in obs : o.entity_id = entityId}

\* the step in which the remember call of slot s returns or raises
RememberEnds(s) == calls[s].op = "remember" /\ calls'[s].op = "idle"
\* the step in which the merge call of slot s returns or raises after its await
MergeEnds(s) == calls[s].op = "merge" /\ calls'[s].op = "idle"

\* row i is the best match of a scan: at or above the threshold, no row more
\* similar, and the first of the rows that similar
IsBestMatch(vector, existing, i) ==
  LET sim(j) == cosineSimilarity(vector, existing[j].vector)
  IN /\ sim(i) >= DEDUP_THRESHOLD
     /\ \A j \in 1..Len(existing) : sim(j) < sim(i) \/ (sim(j) = sim(i) /\ j >= i)

\* C1: whenever no call is in flight, every observation in the store has
\* exactly one embedding row referencing its id
C1_OneEmbeddingPerObservation ==
  AllIdle => \A o \in observations : Cardinality(EmbeddingRowsOf(embeddings, o.id)) = 1

\* an update that other calls interleaved with has returned, and the store
\* holds several observations
C1_Witness ==
  /\ AllIdle
  /\ last.op = "update" /\ last.status = "returned" /\ last.result.success
  /\ ~last.solo
  /\ Cardinality(observations) >= 2

\* the remember call ending now repeats, with nothing in between, a remember
\* of the same input that returned
SecondOfTwo == RememberEnds(1) /\ calls[1].solo /\ calls[1].pred.success

C3_SkipKeepsStore ==
  [][RememberEnds(1) =>
       LET c == calls[1]
           vector == generateEmbedding(c.content)
           existing == getEmbeddingsByEntity(embeddings, observations, entities, c.entity.id)
       IN \A i \in 1..Len(existing) :
            (/\ IsBestMatch(vector, existing, i)
             /\ ContentLength(existing[i].content) >= ContentLength(c.content)) =>
              /\ store' = store
              /\ last'.status = "returned"
              /\ last'.result.deduplicated
              /\ last'.result.observationId = existing[i].observation_id
              /\ last'.result.relationships_created = {}]_vars

\* a call was deduplicated onto a stored observation of different, longer or
\* equally long, content
C3_Witness ==
  /\ last.op = "remember" /\ last.status = "returned" /\ last.result.deduplicated
  /\ \E o \in observations : /\ o.id = last.result.observationId
                             /\ o.content # last.input.content

\* C4: when the best match is shorter than the new content, its observation
\* and embedding are deleted, one observation with the new content and one
\* embedding are created, the entity's observation count is unchanged and
\* replaced_observation is the deleted observation's content
C4_ReplaceSwapsOne ==
  [][RememberEnds(1) =>
       LET c == calls[1]
           vector == generateEmbedding(c.content)
           existing == getEmbeddingsByEntity(embeddings, observations, entities, c.entity.id)
       IN \A i \in 1..Len(existing) :
            (/\ IsBestMatch(vector, existing, i)
             /\ ContentLength(existing[i].content) < ContentLength(c.content)) =>
              LET m == existing[i].observation_id
                  n == last'.result.observationId
              IN /\ last'.status = "returned"
                 /\ last'.result.replaced_observation = existing[i].content
                 /\ n \notin ObservationIds(observations)
                 /\ observations' =
                      {o \in observations : o.id # m} \cup
                      {[id |-> n, entity_id |-> c.entity.id, content |-> c.content,
                        source |-> c.source]}
                 /\ EmbeddingRowsOf(embeddings', m) = {}
                 /\ Cardinality(EmbeddingRowsOf(embeddings', n)) = 1
                 /\ Len(embeddings') = Len(embeddings)
                 /\ Cardinality(ObservationsOf(observations', c.entity.id)) =
                      Cardinality(ObservationsOf(observations, c.entity.id))]_vars

\* a call replaced a shorter observation while the entity held another one
C4_Witness ==
  /\ last.op = "remember" /\ last.status = "returned"
  /\ last.result.replaced_observation # NoContent
  /\ Cardinality(ObservationsOf(observations, last.result.entityId)) >= 2

\* C5 as stated: a remember call that saw no duplicate when it was suspended
\* and overlapped a call of the same content and entity that stored its
\* observation inserts as well
C5_OverlappingCallsBothInsert ==
  [][\A s \in SlotIds :
       (/\ RememberEnds(s) /\ last'.status = "returned"
        /\ calls[s].peer # NoId /\ calls[s].snap = "insert") =>
         /\ ~last'.result.deduplicated
         /\ last'.result.replaced_observation = NoContent]_vars

\* C5 amended: remember reads the entity's embeddings after the embedder has
\* returned, in the step that writes; of two overlapping calls with the same
\* content and entity, the one that resumes second finds the observation the
\* first one stored, while it is stored, as a match and does not insert beside
\* it as if there were no duplicate
C5_SecondToResumeSeesFirst ==
  [][\A s \in SlotIds :
       (/\ RememberEnds(s) /\ last'.status = "returned"
        /\ calls[s].peer \in ObservationIds(observations)) =>
         \/ last'.result.deduplicated
         \/ last'.result.replaced_observation # NoContent]_vars

\* a call that saw no duplicate when it was suspended was deduplicated onto
\* the observation an overlapping call stored
C5_Witness ==
  /\ last.op = "remember" /\ last.status = "returned"
  /\ last.peer # NoId /\ last.snap = "insert"
  /\ last.result.deduplicated
  /\ last.result.observationId = last.peer

\* C6: a successful merge of N ids of one entity leaves the entity with
\* (count - N + 1) observations, every listed observation and its embedding
\* gone, one new observation with the content, one embedding and the first
\* non-null source of the originals in request order, and merged_count = N
C6_MergeCounts ==
  [][(MergeEnds(1) /\ last'.status = "returned") =>
       LET c == calls[1]
           ids == c.input.observation_ids
           N == Len(ids)
           e == c.entity.id
           n == last'.result.new_observation_id
           sources == [i \in 1..N |-> ObservationById(observations, ids[i]).source]
           nonNull == {i \in 1..N : sources[i] # NULL}
           source == IF nonNull = {} THEN NULL
                     ELSE sources[CHOOSE i \in nonNull : \A j \in nonNull : i <= j]
       IN /\ Cardinality(ObservationsOf(observations', e)) =
               Cardinality(ObservationsOf(observations, e)) - N + 1
          /\ \A i \in 1..N : /\ ids[i] \notin ObservationIds(observations')
                             /\ EmbeddingRowsOf(embeddings', ids[i]) = {}
          /\ n \notin ObservationIds(observations)
          /\ [id |-> n, entity_id |-> e, content |-> c.input.content, source |-> source]
               \in observations'
          /\ Cardinality(EmbeddingRowsOf(embeddings', n)) = 1
          /\ last'.result.merged_count = N]_vars

\* some requested id is missing, or the requested observations span entities
MergeInvalid(ids) ==
  LET present == {ids[i] : i \in 1..Len(ids)} \cap ObservationIds(observations)
  IN \/ \E i \in 1..Len(ids) : ids[i] \notin ObservationIds(observations)
     \/ Cardinality({ObservationById(observations, id).entity_id : id \in present}) > 1

\* the step is a call of merge with these ids
MergeCalled(ids) ==
  /\ Idle(1)
  /\ \/ calls'[1].op = "merge" /\ calls'[1].input.observation_ids = ids
     \/ last'.op = "merge" /\ last'.input.observation_ids = ids

\* C7: merge raises and leaves every table as it was whenever a requested id
\* does not exist or the requested observations belong to several entities
C7_InvalidMergeRaises ==
  [][\A ids \in MergeIdArgs :
       (MergeCalled(ids) /\ MergeInvalid(ids)) =>
         /\ last'.op = "merge" /\ last'.status = "raised"
         /\ calls'[1].op = "idle"
         /\ store' = store]_vars

\* a merge across two entities was rejected
C7_Witness ==
  /\ last.op = "merge" /\ last.status = "raised"
  /\ last.result.error = "All observations must belong to the same entity"
  /\ Cardinality({o.entity_id : o \in observations}) >= 2

\* C8: after forget(entity=X) succeeds no observation, embedding or
\* relationship row references X's id, X has no entity row, and the JSON
\* export has no entity named X
C8_ForgetEntityLeavesNothing ==
  [][(/\ last'.op = "forget" /\ last'.input.observation_id = NoId
      /\ last'.result.success) =>
       LET X == last'.input.entity
           e == (CHOOSE x \in entities : x.name = X).id
       IN /\ \A o \in observations' : o.entity_id # e
          /\ \A i \in 1..Len(embeddings') : embeddings'[i].entity_id # e
          /\ \A r \in BagToSet(relationships') : r.from_entity # e /\ r.to_entity # e
          /\ \A x \in entities' : x.id # e /\ x.name # X
          /\ \A x \in ExportJson(entities', observations') : x.name # X]_vars

\* an entity with observations and a relationship was forgotten while another
\* entity stays
C8_Witness ==
  /\ last.op = "forget" /\ last.input.observation_id = NoId /\ last.result.success
  /\ last.result.deleted.observations >= 1
  /\ last.result.deleted.relationships >= 1
  /\ entities # {}

\* C9: forget(observation_id = id) of a stored observation deletes it and its
\* embedding and returns success; the same call made again returns success
\* false with all deleted counts zero and leaves the store unchanged
C9_ForgetTwice ==
  [][/\ (/\ last'.op = "forget" /\ last'.input.entity = NULL
         /\ last'.input.observation_id \in ObservationIds(observations)) =>
          /\ last'.result = ForgetResult(TRUE, 1, 1, 0, FALSE)
          /\ last'.input.observation_id \notin ObservationIds(observations')
          /\ EmbeddingRowsOf(embeddings', last'.input.observation_id) = {}
     /\ (/\ last.op = "forget" /\ last.input.entity = NULL
         /\ last.input.observation_id # NoId /\ last.result.success
         /\ last'.op = "forget" /\ last'.input = last.input) =>
          /\ last'.result = ForgetResult(FALSE, 0, 0, 0, FALSE)
          /\ store' = store]_vars

\* the second of two forget calls for one observation id failed after the
\* first succeeded
C9_Witness ==
  /\ last.op = "forget" /\ last.input.entity = NULL /\ last.input.observation_id # NoId
  /\ last.pred.success
  /\ ~last.result.success

\* C10: a forget call that gives both entity and observation_id, or neither,
\* returns success false without raising and deletes nothing
C10_BothOrNeitherFails ==
  [][(/\ last'.op = "forget"
      /\ \/ last'.input.entity # NULL /\ last'.input.observation_id # NoId
         \/ last'.input.entity = NULL /\ last'.input.observation_id = NoId) =>
       /\ last'.status = "returned"
       /\ ~last'.result.success
       /\ store' = store]_vars

\* the step in which a remember call for this entity name starts in slot s
RememberStarts(s, name) ==
  calls[s].op = "idle" /\ calls'[s].op = "remember" /\ calls'[s].entity.name = name

\* C11: at most one entity row has a given name (compared case-sensitively),
\* and findOrCreateEntity for a name that has a row returns that row and
\* creates none, also when remember calls overlap; for a name without a row
\* it creates exactly one
C11_OneRowPerName ==
  [][/\ \A a \in entities', b \in entities' : (a.name = b.name \/ a.id = b.id) => a = b
     /\ \A s \in SlotIds, name \in CaseNames :
          RememberStarts(s, name) =>
            IF \E e \in entities : e.name = name
            THEN /\ entities' = entities
                 /\ calls'[s].entity \in entities
            ELSE /\ Cardinality(entities') = Cardinality(entities) + 1
                 /\ calls'[s].entity \in entities' \ entities]_vars

\* two overlapping remember calls share one entity row while a row whose name
\* differs only in case exists beside it
C11_Witness ==
  /\ calls[1].op = "remember" /\ calls[2].op = "remember"
  /\ calls[1].entity = calls[2].entity
  /\ calls[1].entity \in entities
  /\ \E e \in entities : e.name # calls[1].entity.name /\ ToLower(e.name) = ToLower(calls[1].entity.name)

\* C12: every stored observation has content of 1 to 2000 characters
C12_StoredContentLength ==
  \A o \in observations :
    ContentLength(o.content) >= 1 /\ ContentLength(o.content) <= MAX_CONTENT_LENGTH

\* the step is a call of update with this input
UpdateCalled(input) ==
  /\ Idle(1)
  /\ \/ calls'[1].op = "update" /\ calls'[1].input = input
     \/ last'.op = "update" /\ last'.input = input

\* C13: update returns success false and changes no table when the named
\* entity has no row or none of its observations has content exactly equal to
\* old_content
C13_UpdateNeedsExactMatch ==
  [][\A oldContent \in UpdateOldArgs, newContent \in UpdateNewArgs :
       LET input == UpdateInput("kar", oldContent, newContent)
       IN (/\ UpdateCalled(input)
           /\ \A e \in entities : e.name = "kar" =>
                \A o \in observations : o.entity_id = e.id => o.content # oldContent) =>
            /\ last'.op = "update" /\ last'.status = "returned"
            /\ ~last'.result.success
            /\ calls'[1].op = "idle"
            /\ store' = store]_vars

\* an update failed although an observation of the entity embeds exactly like
\* old_content
C13_Witness ==
  /\ last.op = "update" /\ last.status = "returned" /\ ~last.result.success
  /\ \E e \in entities, o \in observations :
       /\ e.name = last.input.entity /\ o.entity_id = e.id
       /\ o.content # last.input.old_content
       /\ generateEmbedding(o.content) = generateEmbedding(last.input.old_content)

\* the step in which update inserts its new observation and suspends
UpdateStarts == Idle(1) /\ calls'[1].op = "update"
\* the step in which a suspended update returns success
UpdateSucceeds ==
  calls[1].op = "update" /\ calls'[1].op = "idle" /\ last'.status = "returned"

\* what a successful update does apart from the fate of old_content: it picks
\* an observation of the entity with content old_content, adds one observation
\* with new_content and that observation's source, then stores one embedding
\* for it and deletes the picked observation with its embedding, so that the
\* entity has as many observations as before the call
UpdateSwapsOne ==
  /\ UpdateStarts =>
       LET c == calls'[1]
       IN /\ c.target \in observations
          /\ c.target.entity_id = c.entity.id
          /\ c.target.content = c.input.old_content
          /\ c.newObs \notin ObservationIds(observations)
          /\ observations' = observations \cup
               {[id |-> c.newObs, entity_id |-> c.entity.id,
                 content |-> c.input.new_content, source |-> c.target.source]}
          /\ embeddings' = embeddings
  /\ UpdateSucceeds =>
       LET c == calls[1]
       IN /\ last'.result.success /\ last'.result.observationId = c.newObs
          /\ observations' = observations \ {c.target}
          /\ EmbeddingRowsOf(embeddings', c.target.id) = {}
          /\ Cardinality(EmbeddingRowsOf(embeddings', c.newObs)) = 1
          /\ Len(embeddings') = Len(embeddings)
          /\ Cardinality(ObservationsOf(observations', c.entity.id)) =
               Cardinality(ObservationsOf(observations, c.entity.id)) - 1

\* C14 as stated: a successful update swaps one observation for one with
\* new_content and the old source, and the old content is no longer among the
\* entity's observations
C14_UpdateReplacesOldContent ==
  [][/\ UpdateSwapsOne
     /\ UpdateSucceeds =>
          \A o \in ObservationsOf(observations', calls[1].entity.id) :
             o.content # calls[1].input.old_content]_vars

\* C14 amended: a successful update swaps one observation for one with
\* new_content and the old source; the old content is no longer among the
\* entity's observations when new_content differs from it and no other
\* observation of the entity has the same content
C14_UpdateReplacesOneObservation ==
  [][/\ UpdateSwapsOne
     /\ (/\ UpdateSucceeds
         /\ calls[1].input.new_content # calls[1].input.old_content
         /\ \A o \in ObservationsOf(observations, calls[1].entity.id) :
              o.content = calls[1].input.old_content => o = calls[1].target) =>
          \A o \in ObservationsOf(observations', calls[1].entity.id) :
             o.content # calls[1].input.old_content]_vars

\* an update of an observation that has a source succeeded and its new
\* observation carries that source
C14_Witness ==
  /\ last.op = "update" /\ last.status = "returned" /\ last.result.success
  /\ \E o \in observations :
       /\ o.id = last.result.observationId
       /\ o.content = last.input.new_content
       /\ o.source = "conv"
  /\ \A o \in observations : o.content # last.input.old_content

\* the entities within k undirected relationship steps of the seed
RECURSIVE Ball(_, _, _)
Ball(rels, seed, k) ==
  IF k = 0 THEN {seed}
  ELSE LET inner == Ball(rels, seed, k - 1)
       IN inner \cup {r.to_entity : r \in {x \in BagToSet(rels) : x.from_entity \in inner}}
                \cup {r.from_entity : r \in {x \in BagToSet(rels) : x.to_entity \in inner}}
\* the shortest-path distance of an entity within maxDepth steps of the seed
Distance(rels, seed, e, maxDepth) ==
  CHOOSE k \in 0..maxDepth : e \in Ball(rels, seed, k) /\ \A j \in 0..(k - 1) : e \notin Ball(rels, seed, j)

\* C15: getRelatedEntities(seed, maxDepth) is exactly the set of entities at
\* undirected shortest-path distance 1..maxDepth from the seed, each with that
\* distance; the seed is not in it, depth 0 gives nothing, and the result for
\* a depth is contained in the result for the next depth
C15_RelatedIsShortestDistance ==
  last.op = "getRelatedEntities" =>
    LET seed == last.input.entityId
        d == last.input.maxDepth
    IN /\ last.result =
            {[id |-> e, depth |-> Distance(relationships, seed, e, d)] :
               e \in Ball(relationships, seed, d) \ {seed}}
       /\ \A v \in last.result : v.id # seed /\ v.depth >= 1 /\ v.depth <= d
       /\ d = 0 => last.result = {}
       /\ last.result \subseteq getRelatedEntities(relationships, entities, seed, d + 1)

\* a traversal to depth 2 reached an entity over a relationship pointing at
\* the seed and one two steps away
C15_Witness ==
  /\ last.op = "getRelatedEntities" /\ last.input.maxDepth = 2
  /\ \E v \in last.result : v.depth = 2
  /\ \E v \in last.result :
       /\ v.depth = 1
       /\ \E r \in BagToSet(relationships) :
            r.from_entity = v.id /\ r.to_entity = last.input.entityId

\* remember has just stored "karolina created hippocampus" under notes while
\* karolina and hippocampus exist
NotesStored(l, ents) ==
  /\ l.op = "remember" /\ l.status = "returned"
  /\ l.input.entity = "notes" /\ l.input.content = cCreator
  /\ ~l.result.deduplicated
  /\ findEntityByName(ents, "karolina") # {}
  /\ findEntityByName(ents, "hippocampus") # {}

\* context for karolina has just returned
ContextKarolina(l, depth) ==
  /\ l.op = "context" /\ l.status = "returned"
  /\ l.input = ContextInput("karolina", <<depth>>)

RelatedByName(rels, ents, a, b) ==
  relationshipExists(rels, EntityNamed(ents, a).id, EntityNamed(ents, b).id)

PairCount(rels, a, b) ==
  BagSum(rels, {r \in RelRows(rels) : \/ r.from_entity = a /\ r.to_entity = b
                                      \/ r.from_entity = b /\ r.to_entity = a})

\* C17: remember inserts a relates_to row between the source entity and a
\* candidate only when no row joins the two in either direction, so after any
\* remember calls no unordered pair of entities has more than one relationship
C17_OneRelationshipPerPair ==
  /\ [](\A a \in 1..MaxEntNotes, b \in 1..MaxEntNotes : PairCount(relationships, a, b) <= 1)
  /\ [][\A a \in 1..MaxEntNotes, b \in 1..MaxEntNotes :
          PairCount(relationships', a, b) # PairCount(relationships, a, b) =>
            /\ PairCount(relationships, a, b) = 0
            /\ PairCount(relationships', a, b) = 1
            /\ \E r \in RelRows(relationships') :
                 /\ r.relation_type = "relates_to"
                 /\ r.from_entity = last'.result.entityId
                 /\ r.to_entity \in {a, b} /\ r.from_entity \in {a, b}]_vars

\* remember stored content naming karolina under notes and created no
\* relationship to karolina, because karolina already relates to notes
C17_Witness ==
  /\ last.op = "remember" /\ last.status = "returned"
  /\ last.input.entity = "notes" /\ last.input.content = cCreator
  /\ ~last.result.deduplicated
  /\ findEntityByName(entities, "karolina") # {}
  /\ "karolina" \notin last.result.relationships_created
  /\ \E r \in RelRows(relationships) :
       /\ r.from_entity = EntityNamed(entities, "karolina").id
       /\ r.to_entity = last.result.entityId

\* recall has just returned
RecallReturned == last.op = "recall" /\ last.status = "returned"

\* the similarity of a stored observation to a query, by its embedding row
SimilarityTo(query, observationId) ==
  LET i == CHOOSE j \in 1..Len(embeddings) : embeddings[j].observation_id = observationId
  IN cosineSimilarity(generateEmbedding(<<query>>), embeddings[i].vector)

\* the observations a query reaches semantically
Qualifying(query) ==
  {embeddings[j].observation_id :
     j \in {x \in 1..Len(embeddings) :
              cosineSimilarity(generateEmbedding(<<query>>), embeddings[x].vector)
                >= SIMILARITY_THRESHOLD}}

Without(q, ids) == SelectSeq(q, LAMBDA id : id \notin ids)

\* C18: recall returns at most limit memories, no observation id twice; first
\* the semantic hits of similarity >= 0.15 in descending similarity, each
\* tagged with its similarity, then the lexical hits not already present,
\* newest first; count is the number of memories returned
C18_RecallOrder ==
  RecallReturned /\ last.snap.embedded =>
    LET mem == last.result.memories
        query == last.input.query
        limit == last.input.limit
        tagged == {i \in 1..Len(mem) : mem[i].similarity # <<>>}
        k == Cardinality(tagged)
        first == {mem[i].observation_id : i \in 1..k}
        rest == [i \in 1..(Len(mem) - k) |-> mem[k + i].observation_id]
    IN /\ last.result.success
       /\ Len(mem) <= limit
       /\ last.result.count = Len(mem)
       /\ \A i \in 1..Len(mem), j \in 1..Len(mem) :
            i # j => mem[i].observation_id # mem[j].observation_id
       /\ tagged = 1..k
       /\ first \subseteq Qualifying(query)
       /\ k = IF Cardinality(Qualifying(query)) < limit
              THEN Cardinality(Qualifying(query)) ELSE limit
       /\ \A i \in 1..k :
            /\ mem[i].similarity = <<RoundSimilarity(SimilarityTo(query, mem[i].observation_id))>>
            /\ \A id \in Qualifying(query) \ first :
                 SimilarityTo(query, id) <= SimilarityTo(query, mem[i].observation_id)
       /\ \A i \in 1..(k - 1) :
            SimilarityTo(query, mem[i].observation_id)
              >= SimilarityTo(query, mem[i + 1].observation_id)
       /\ rest = Truncate(Without(last.snap.keywordResults, first), limit - k)
       /\ \A i \in 1..(Len(rest) - 1) : rest[i] > rest[i + 1]

\* recall returned a semantic hit followed by a keyword hit, a second keyword
\* hit being the observation already listed
C18_Witness ==
  /\ RecallReturned /\ last.snap.embedded
  /\ Len(last.result.memories) = 2
  /\ last.result.memories[1].similarity # <<>>
  /\ last.result.memories[2].similarity = <<>>
  /\ \E i \in 1..Len(last.snap.keywordResults) :
       last.snap.keywordResults[i] = last.result.memories[1].observation_id

\* C19: when the embedder fails during recall the failure is caught: recall
\* returns success, and its memories are exactly the lexical results cut to
\* limit, none carrying a similarity
C19_EmbedderFailureFallsBack ==
  RecallReturned /\ ~last.snap.embedded =>
    LET mem == last.result.memories
        lexical == searchObservations(observations, entities,
                                      last.input.query, last.input.limit)
    IN /\ last.result.success
       /\ last.result.count = Len(mem)
       /\ [i \in 1..Len(mem) |-> mem[i].observation_id] = Truncate(lexical, last.input.limit)
       /\ lexical = last.snap.keywordResults
       /\ \A i \in 1..Len(mem) : mem[i].similarity = <<>>

\* the embedder failed for a query that has semantic hits, and recall returned
\* the keyword hits, leaving out an observation only the embedding reaches
C19_Witness ==
  /\ RecallReturned /\ ~last.snap.embedded
  /\ Len(last.result.memories) >= 1
  /\ \E id \in Qualifying(last.input.query) :
       \A i \in 1..Len(last.result.memories) : last.result.memories[i].observation_id # id

\* the topic occurs in the name, letter case aside
ContainsIgnoringCase(name, topic) ==
  \E off \in 0..(Len(name) - Len(topic)) :
     \A i \in 1..Len(topic) : LowerChar(name[off + i]) = LowerChar(topic[i])

\* C20: context resolves the topic by the first rule that matches: the entity
\* of that exact name; else an entity the case-insensitive substring search
\* finds; else the owner of the top semantic hit when it scores >= 0.2; when
\* no rule matches it returns success false with no relationships and no
\* related entities; and context never modifies the store
C20_ContextResolution ==
  /\ [](last.op = "context" /\ last.status = "returned" =>
         LET topic == last.input.topic
             exact == findEntityByName(entities, topic)
             substring == {e \in entities : ContainsIgnoringCase(Chars(e.name), Chars(topic))}
             semantic == IF last.snap.embedded
                         THEN SemanticEntities(embeddings, observations, entities, topic)
                         ELSE {}
         IN IF exact # {}
            THEN last.result.success /\ last.result.entity = topic
            ELSE IF substring # {}
                 THEN last.result.success
                      /\ last.result.entity \in {e.name : e \in substring}
                 ELSE IF semantic # {}
                      THEN last.result.success
                           /\ last.result.entity \in {e.name : e \in semantic}
                      ELSE /\ ~last.result.success
                           /\ last.result.relationships = {}
                           /\ last.result.related_entities = {})
  /\ [][last'.op = "context" \/ (\E s \in SlotIds : calls'[s].op = "context")
          => UNCHANGED <<entities, observations, embeddings, relationships>>]_vars

\* context for a topic has returned, called right after forget deleted the
\* entity of that name
ContextAfterForget ==
  /\ last.op = "context" /\ last.status = "returned"
  /\ last.pred.success /\ last.pred.deleted.entity

Loaded(entityArg) ==
  {i \in 1..Len(embeddings) :
     entityArg = NULL \/ \E e \in entities : e.name = entityArg /\ e.id = embeddings[i].entity_id}

\* the rows joined to a set of rows by a pair of similarity >= threshold
Neighbours(rows, loaded, threshold) ==
  rows \cup {j \in loaded : \E i \in rows :
               cosineSimilarity(embeddings[i].vector, embeddings[j].vector) >= threshold}

RECURSIVE Closure(_, _, _, _)
Closure(rows, loaded, threshold, k) ==
  IF k = 0 THEN rows
  ELSE Closure(Neighbours(rows, loaded, threshold), loaded, threshold, k - 1)

\* the connected components of at least two rows, as sets of observation ids
Components(entityArg, threshold) ==
  LET loaded == Loaded(entityArg)
      whole == {Closure({i}, loaded, threshold, Cardinality(loaded)) : i \in loaded}
  IN {{embeddings[i].observation_id : i \in comp} : comp \in {c \in whole : Cardinality(c) >= 2}}

\* C22: consolidate returns exactly the connected components of two or more
\* members of the graph of the loaded embeddings (of the entity, or all) whose
\* edges are the pairs of similarity >= threshold; no observation is in two
\* clusters, clusters come in descending member count, and the store is not
\* modified
C22_ClustersAreComponents ==
  /\ [](last.op = "consolidate" /\ last.result.success =>
          LET clusters == last.result.clusters
              threshold == IF last.input.threshold = <<>> THEN DEFAULT_THRESHOLD
                           ELSE last.input.threshold[1]
              members(k) == {clusters[k].observations[m] :
                               m \in 1..Len(clusters[k].observations)}
          IN /\ {members(k) : k \in 1..Len(clusters)} = Components(last.input.entity, threshold)
             /\ Len(clusters) = Cardinality(Components(last.input.entity, threshold))
             /\ \A k \in 1..Len(clusters) :
                  Cardinality(members(k)) = Len(clusters[k].observations)
             /\ \A k \in 1..Len(clusters), l \in 1..Len(clusters) :
                  k # l => members(k) \cap members(l) = {}
             /\ \A k \in 1..(Len(clusters) - 1) :
                  Len(clusters[k].observations) >= Len(clusters[k + 1].observations)
             /\ last.result.total_observations = Cardinality(Loaded(last.input.entity)))
  /\ [][last'.op = "consolidate" =>
          UNCHANGED <<entities, observations, embeddings, relationships>>]_vars

\* consolidate returned a cluster of three ahead of a cluster of two whose
\* members were stored first, the three joined through a middle member only
C22_Witness ==
  /\ last.op = "consolidate" /\ last.result.success
  /\ Len(last.result.clusters) = 2
  /\ Len(last.result.clusters[1].observations) = 3
  /\ Len(last.result.clusters[2].observations) = 2
  /\ \E m \in 1..2 : last.result.clusters[2].observations[m] = 1

\* C23: an open of a store whose version is above the current one fails, and
\* an open of a store whose version is below it leaves the current version.
C23_OpenRefusesNewerAndMigratesOlder ==
  [][(db.status = "file" /\ db'.status # "file") =>
       /\ db.version > SCHEMA_VERSION => db'.status = "failed"
       /\ (db.version < SCHEMA_VERSION /\ db'.status = "open") =>
            db'.version = SCHEMA_VERSION]_vars

HasEmbeddingRow(id) == \E i \in DOMAIN embeddings : embeddings[i].observation_id = id

\* the observations backfill found without an embedding at startup
StartupGaps == {backfill.missing[i].id : i \in DOMAIN backfill.missing}

Repaired(ids) == \A id \in ids : id \in ObservationIds(observations) => HasEmbeddingRow(id)

\* the promise backfillEmbeddings returned is settled
BackfillFinished == backfill.status \in {"done", "rejected"}

\* C24: unless the open or the embedder fails, backfill finishes with every
\* observation that lacked an embedding at startup and still exists having one.
C24_BackfillRepairsEveryGap ==
  \/ <>(db.status = "failed")
  \/ <>(backfill.cause = "embedder")
  \/ <>(BackfillFinished /\ Repaired(StartupGaps))

\* C25: a failure of the embedder during backfill is logged, and the other
\* observations that lacked an embedding still get one.
C25_BackfillContinuesAfterFailure ==
  /\ [](backfill.cause = "embedder" => backfill.logged)
  /\ (backfill.cause = "embedder") ~> Repaired(StartupGaps \ backfill.failed)

\* the token responses that answered an authorization code / a refresh token
CodeGrants == {g \in issued : g.grant_type = "authorization_code"}
RefreshGrants == {g \in issued : g.grant_type = "refresh_token"}

\* C26: tokens are issued for a code only when the verifier hashes to the
\* stored challenge, the redirect_uri matches and the code has not expired,
\* and no code yields tokens twice, whatever requests are in flight.
C26_CodeRedeemedOnceUnderPkce ==
  /\ [](\A g, h \in CodeGrants : g.presented = h.presented => g = h)
  /\ [][\A g \in (issued' \ issued) :
          g.grant_type = "authorization_code" =>
            \E a \in authCodes :
              /\ a.code = g.presented
              /\ sha256(g.code_verifier) = a.code_challenge
              /\ g.redirect_uri = a.redirect_uri
              /\ now <= a.expires_at]_vars

\* a well-formed request for a code that another request, served while this
\* one was in flight, had already redeemed
C26_Witness ==
  /\ last.op = "token"
  /\ last.input.grant_type = "authorization_code"
  /\ last.input.code_verifier = "v1"
  /\ last.input.redirect_uri = "cb1"
  /\ last.result.code = 400
  /\ ~last.solo
  /\ \E g \in CodeGrants : g.presented = last.input.code /\ g.at = now

UsedRefresh == {g.presented : g \in RefreshGrants}
RevokedAccess == {g.revoked : g \in RefreshGrants}

\* C27: a refresh token yields tokens at most once, and once it has, it and
\* the access token issued with it are rejected.
C27_RefreshRotation ==
  /\ [](\A g, h \in RefreshGrants : g.presented = h.presented => g = h)
  /\ [][/\ (/\ last'.op = "token"
            /\ last'.input.grant_type = "refresh_token"
            /\ last'.input.refresh_token \in UsedRefresh) => last'.result.code = 400
        /\ (last'.op = "mcp" /\ last'.input.auth \in RevokedAccess) =>
             last'.result.code # 200]_vars

\* a request to /mcp refused for an access token that a rotation revoked
\* within the hour of its issue
C27_Witness ==
  /\ last.op = "mcp"
  /\ last.input.auth \in RevokedAccess
  /\ last.result.code = 401
  /\ \E g \in issued : g.access_token = last.input.auth /\ now <= g.at + ACCESS_TOKEN_TTL

\* a Bearer token the token endpoint issued, that no rotation has revoked
\* and that is not older than one hour
ValidBearer(auth) ==
  \E g \in issued :
    /\ g.access_token = auth
    /\ auth \notin RevokedAccess
    /\ now <= g.at + ACCESS_TOKEN_TTL

McpClients == {"10.0.0.1"}
McpTools == {"tools/list", "remember"}
McpAnswered(code) == last'.op = "mcp" /\ last'.result.code = code

OverLimit(ip) == \E w \in windows' : w.key = ip /\ w.count > config.rateLimitRecall

C29_RememberLimitedTo20 ==
  [][\A auth \in Uuids :
       (/\ McpRequest("10.0.0.1", "remember", auth)
        /\ \E w \in windows : /\ w.key = "10.0.0.1"
                              /\ now <= w.resetAt
                              /\ w.count >= config.rateLimitRemember)
       => McpAnswered(429)]_vars

ObservationsNotOf(obs, entityId) == {o \in obs : o.entity_id # entityId}
EmbeddingsNotOf(embs, entityId) == SelectSeq(embs, LAMBDA r : r.entity_id # entityId)

\* a stored embedding of the entity is at least 0.85 similar to the content
SimilarStored(embs, entityId, content) ==
  \E i \in DOMAIN embs :
    /\ embs[i].entity_id = entityId
    /\ cosineSimilarity(generateEmbedding(content), embs[i].vector) >= DEDUP_THRESHOLD

\* C30: a remember that returns has inserted (one observation more for its
\* entity, neither deduplicated nor replaced_observation in the result)
\* exactly when no stored embedding of that entity was at least 0.85 similar
\* to the content, and it leaves the observations and embeddings of every
\* other entity as they were.
C30_RememberDedupIsPerEntity ==
  [][(last'.op = "remember" /\ last'.status = "returned") =>
       LET e == last'.result.entityId
           inserted ==
             /\ Cardinality(ObservationsOf(observations', e))
                  = Cardinality(ObservationsOf(observations, e)) + 1
             /\ ~last'.result.deduplicated
             /\ last'.result.replaced_observation = NoContent
       IN /\ inserted <=> ~SimilarStored(embeddings, e, last'.input.content)
          /\ ObservationsNotOf(observations', e) = ObservationsNotOf(observations, e)
          /\ EmbeddingsNotOf(embeddings', e) = EmbeddingsNotOf(embeddings, e)]_vars

\* a remember that inserted although another entity holds an embedding at
\* least 0.85 similar to the content
C30_Witness ==
  /\ last.op = "remember"
  /\ last.status = "returned"
  /\ ~last.result.deduplicated
  /\ last.result.replaced_observation = NoContent
  /\ \E i \in DOMAIN embeddings :
       /\ embeddings[i].entity_id # last.result.entityId
       /\ cosineSimilarity(generateEmbedding(last.input.content), embeddings[i].vector)
            >= DEDUP_THRESHOLD
  /\ \E o \in observations : o.id = last.result.observationId /\ o.entity_id = last.result.entityId

\* the relationship rows a step inserted
InsertedRelationships ==
  {r \in RelRows(relationships') : CopiesIn(r, relationships') > CopiesIn(r, relationships)}

\* C31: no relationship that remember's detection inserts points to the
\* source entity itself, to the entity named "general", or to an entity
\* whose name has fewer than 3 characters.
C31_DetectionSkipsSelfGeneralShort ==
  [][\A r \in InsertedRelationships :
       /\ r.to_entity # r.from_entity
       /\ \A e \in entities' :
            e.id = r.to_entity => e.name # "general" /\ Len(e.name) >= 3]_vars

\* a remember whose content names its own entity, "general" and "ab", all
\* stored, and for which detection linked the one remaining entity
C31_Witness ==
  /\ last.op = "remember" /\ last.status = "returned"
  /\ last.input.entity = "karolina" /\ last.input.content = cAll
  /\ {"general", "ab", "notes"} \subseteq {e.name : e \in entities}
  /\ last.result.relationships_created = {"notes"}
  /\ \E r \in RelRows(relationships) :
       r.from_entity = last.result.entityId /\ r.to_entity = EntityNamed(entities, "notes").id

RECURSIVE PassedCount(_)
PassedCount(ps) ==
  IF ps = {} THEN 0
  ELSE LET p == CHOOSE q \in ps : TRUE IN p.count + PassedCount(ps \ {p})

\* the requests of a window's key that were handed on while it was open
PassedInWindow(w) ==
  PassedCount({p \in passed : /\ p.key = w.key
                              /\ p.at >= w.resetAt - WINDOW_MS
                              /\ p.at <= w.resetAt})

\* the limiter's window of a key is open: it exists and has not lapsed
WindowOpen(ip) == \E w \in windows : w.key = ip /\ ~(now > w.resetAt)

\* C32: per key the limiter hands on at most maxRequests requests within one
\* 60-second window; a request arriving in an open window that already
\* counted maxRequests is answered 429 and not handed on; a request
\* arriving with no window or after the reset time opens a new window and
\* is counted as its first.
C32_WindowPassesAtMostLimit ==
  /\ [](\A w \in windows : PassedInWindow(w) <= config.rateLimitRecall)
  /\ [][\A ip \in WindowClients, auth \in Uuids \cup {NoId} :
          McpRequest(ip, "tools/list", auth) =>
            /\ (/\ WindowOpen(ip)
                /\ \E w \in windows : w.key = ip /\ w.count >= config.rateLimitRecall)
               => /\ McpAnswered(429)
                  /\ passed' = passed
                  /\ UNCHANGED <<store, nextEntity, nextObs>>
            /\ ~WindowOpen(ip)
               => /\ \E w \in windows' : /\ w.key = ip
                                         /\ w.count = 1
                                         /\ w.resetAt = now + WINDOW_MS
                  /\ ~McpAnswered(429)]_vars

\* a request refused in the window opened just past the first window's
\* reset time, one second after a request passed in the first window
C32_Witness ==
  /\ last.op = "mcp" /\ last.result.code = 429
  /\ \E w \in windows : /\ w.key = "10.0.0.1"
                        /\ w.resetAt = 2 * WINDOW_MS + 1
                        /\ w.count > config.rateLimitRecall
  /\ \E p \in passed : p.key = "10.0.0.1" /\ p.at = WINDOW_MS

\* C33 as stated: every update that returns success removes exactly one
\* observation of the entity on finishing (the one it added is already
\* stored), so overlapping updates of the same old_content leave the
\* entity's observation count as it was.
C33_OverlappingUpdatesKeepCount ==
  [][\A s \in SlotIds :
       (/\ UpdateResume(s)
        /\ last'.status = "returned"
        /\ last'.result.success) =>
          Cardinality(ObservationsOf(observations', calls[s].entity.id)) =
            Cardinality(ObservationsOf(observations, calls[s].entity.id)) - 1]_vars

\* C34 as stated: when the embedder fails inside remember, update or merge
\* the call raises and the store is as it was before the call: every stored
\* observation has its embedding (calls run one at a time here, so each
\* had one when the call began).
C34_EmbedderFailureLeavesStore ==
  [][EmbedderFails(1) =>
       /\ last'.status = "raised"
       /\ \A o \in observations' :
            \E i \in DOMAIN embeddings' : embeddings'[i].observation_id = o.id]_vars

\* C35: in every state, also while the startup backfill and remember,
\* update and merge calls are suspended on the embedder beside each other,
\* no observation has more than one embedding row.
C35_NeverTwoEmbeddingRows ==
  \A o \in observations : Cardinality(EmbeddingRowsOf(embeddings, o.id)) <= 1

\* backfill has stored an embedding and is suspended for the next one while
\* an update is suspended too, after a call has written an embedding
C35_Witness ==
  /\ backfill.status = "awaiting" /\ backfill.count >= 1
  /\ \E s \in SlotIds : calls[s].op = "update"
  /\ \E o \in observations : o.id > MaxObsStartup /\ HasEmbeddingRow(o.id)
  /\ HasEmbeddingRow(backfill.missing[1].id)

\* every row references rows that exist
RowsReferenceEntities ==
  /\ \A o \in observations : o.entity_id \in EntityIds(entities)
  /\ \A i \in DOMAIN embeddings :
       /\ embeddings[i].entity_id \in EntityIds(entities)
       /\ embeddings[i].observation_id \in ObservationIds(observations)
  /\ \A r \in RelRows(relationships) :
       r.from_entity \in EntityIds(entities) /\ r.to_entity \in EntityIds(entities)

\* the suspended call of slot s is on an entity whose row is gone
EntityGone(s) ==
  /\ calls[s].op \in {"remember", "update", "merge"}
  /\ calls[s].entity.id \notin EntityIds(entities)

\* C36: in every state every observation, embedding and relationship row
\* references an entity row that exists; a remember, update or merge that
\* resumes after its entity was forgotten raises and stores nothing.
C36_NoRowOutlivesItsEntity ==
  /\ []RowsReferenceEntities
  /\ [][\A s \in SlotIds :
          (EntityGone(s) /\ calls'[s].op = "idle") =>
             /\ last'.status = "raised"
             /\ last'.slot = s
             /\ UNCHANGED <<store, nextEntity, nextObs>>]_vars

\* a call resumed after its entity was forgotten and raised, while the
\* store holds a relationship between entities that exist
C36_Witness ==
  /\ last.op \in {"remember", "update", "merge"} /\ last.status = "raised"
  /\ last.result.error = "FOREIGN KEY constraint failed"
  /\ RelRows(relationships) # {}
  /\ observations # {}

\* C37 as stated: a handle is available only after a successful open:
\* getDatabase throws whenever no open succeeded (before initDatabase, after
\* a failed integrity check, after closeDatabase), and initDatabase returns
\* only a handle that passed the check.
C37_HandleOnlyAfterSuccessfulOpen ==
  /\ [][(getDatabase /\ db.status # "open") => last'.status = "raised"]_vars
  /\ [][\A keyOk \in BOOLEAN :
          (initDatabase(keyOk) /\ last'.status = "returned") =>
             last'.result.handle = "verified"]_vars

\* C38 as stated: every authorization code that exists was issued for a
\* registered client_id and a redirect_uri registered for that client.
C38_CodesOnlyForRegisteredClients ==
  \A a \in authCodes :
     \E c \in clients : c.client_id = a.client_id /\ a.redirect_uri \in c.redirect_uris

====
